---- MODULE Spec2Model ----
(***************************************************************************)
(* Model of the analytics engine of the Sales-Analytics-System            *)
(* (src/utils/data_processor.py).                                         *)
(*                                                                         *)
(* Python values are tagged records [k, s, v]: k is the Python type,      *)
(* s the characters of a str, v the number of an int/float/bool.          *)
(* A str is a sequence of one-character strings, so that strip(), ==''    *)
(* and the lexicographic order of sorted() are computed, not assumed.     *)
(* Money is exact: a float amount is an integer number of thousandths     *)
(* (mills); round(x, 2) yields an integer number of hundredths (cents),   *)
(* round-half-even as Python's round() on an exactly represented value.   *)
(* A dict is a sequence of entries in insertion order with unique keys.   *)
(***************************************************************************)
EXTENDS Integers, Sequences, FiniteSets, TLC

VARIABLES transactions, result, previous, by_product, sales_file, cleaned_file,
          enriched_file, report_file, enriched_path

vars == <<transactions, result, previous, by_product, sales_file, cleaned_file,
          enriched_file, report_file, enriched_path>>

(***************************************************************************)
(* Bounds                                                                  *)
(***************************************************************************)
MaxLen == 3

(***************************************************************************)
(* Python values                                                           *)
(***************************************************************************)
PyStr(chars) == [k |-> "str", s |-> chars, v |-> 0]
PyNone == [k |-> "none", s |-> <<>>, v |-> 0]
PyMissing == [k |-> "missing", s |-> <<>>, v |-> 0]
PyInt(i) == [k |-> "int", s |-> <<>>, v |-> i]
PyFloat(mills) == [k |-> "float", s |-> <<>>, v |-> mills]
PyBool(b) == [k |-> "bool", s |-> <<>>, v |-> IF b THEN 1 ELSE 0]

EmptyStr == PyStr(<<>>)

\* t.get(field): None when the key is absent
get(t, field) == IF t[field].k = "missing" THEN PyNone ELSE t[field]

\* t.get(field, ''): '' when the key is absent, None when it is stored as None
get_default(t, field, default) == IF t[field].k = "missing" THEN default ELSE t[field]

\* truth value of a Python object (x or '', if x:)
truthy(x) ==
    CASE x.k = "str" -> x.s # <<>>
      [] x.k \in {"int", "float", "bool"} -> x.v # 0
      [] OTHER -> FALSE

\* isinstance(x, int): bool is a subclass of int
isinstance_int(x) == x.k \in {"int", "bool"}

\* isinstance(x, (int, float))
isinstance_number(x) == x.k \in {"int", "float", "bool"}

\* float(price), in mills
to_float(x) == IF x.k = "float" THEN x.v ELSE x.v * 1000

IsSpace(c) == c \in {" ", "\t"}

RECURSIVE lstrip(_)
lstrip(chars) ==
    IF chars # <<>> /\ IsSpace(Head(chars)) THEN lstrip(Tail(chars)) ELSE chars

RECURSIVE rstrip(_)
rstrip(chars) ==
    IF chars # <<>> /\ IsSpace(chars[Len(chars)])
    THEN rstrip(SubSeq(chars, 1, Len(chars) - 1))
    ELSE chars

\* str.strip()
strip(x) == PyStr(rstrip(lstrip(x.s)))

\* code point of the characters the model uses
Ord(c) ==
    CASE c = "\t" -> 9 [] c = " " -> 32 [] c = "(" -> 40 [] c = ")" -> 41
      [] c = "-" -> 45
      [] c = "0" -> 48 [] c = "1" -> 49 [] c = "2" -> 50 [] c = "3" -> 51
      [] c = "4" -> 52 [] c = "5" -> 53 [] c = "6" -> 54 [] c = "7" -> 55
      [] c = "8" -> 56 [] c = "9" -> 57
      [] c = "A" -> 65 [] c = "B" -> 66 [] c = "C" -> 67 [] c = "K" -> 75
      [] c = "M" -> 77 [] c = "N" -> 78 [] c = "S" -> 83 [] c = "U" -> 85
      [] c = "a" -> 97 [] c = "b" -> 98 [] c = "c" -> 99 [] c = "e" -> 101
      [] c = "h" -> 104 [] c = "k" -> 107 [] c = "n" -> 110 [] c = "o" -> 111
      [] c = "r" -> 114 [] c = "s" -> 115 [] c = "t" -> 116 [] c = "u" -> 117
      [] c = "w" -> 119 [] c = "y" -> 121

\* a < b for two str values (Python compares code points, shorter prefix first)
RECURSIVE str_lt(_, _)
str_lt(a, b) ==
    IF b = <<>> THEN FALSE
    ELSE IF a = <<>> THEN TRUE
    ELSE IF Ord(Head(a)) # Ord(Head(b)) THEN Ord(Head(a)) < Ord(Head(b))
    ELSE str_lt(Tail(a), Tail(b))

\* the magnitude of a number
Abs(x) == IF x < 0 THEN 0 - x ELSE x

\* round(x, n) of num/den to an integer number of units, ties to even
round_half_even(num, den) ==
    LET q == num \div den
        r == num % den
    IN  IF 2 * r < den THEN q
        ELSE IF 2 * r > den THEN q + 1
        ELSE IF q % 2 = 0 THEN q ELSE q + 1

\* round(amount, 2): mills -> cents
round2(mills) == round_half_even(mills, 10)

(***************************************************************************)
(* Transactions                                                            *)
(***************************************************************************)
Tx(date, pname, qty, price, cid, region) ==
    [Date |-> date, ProductName |-> pname, Quantity |-> qty,
     UnitPrice |-> price, CustomerID |-> cid, Region |-> region]

\* the amount of a record rounded to cents before it is added
amount_rounded(t) ==
    10 * round2(get(t, "Quantity").v * to_float(get(t, "UnitPrice")))

\* qty * float(price), in mills
amount(t) == get(t, "Quantity").v * to_float(get(t, "UnitPrice"))

\* the type test every aggregator applies to Quantity and UnitPrice
numeric_ok(t) ==
    isinstance_int(get(t, "Quantity")) /\ isinstance_number(get(t, "UnitPrice"))

\* sum(e[field] for e in entries)
RECURSIVE SumField(_, _)
SumField(entries, field) ==
    IF entries = <<>> THEN 0
    ELSE entries[1][field] + SumField(Tail(entries), field)

\* index of key in a dict (0 when absent)
key_index(d, key) ==
    IF \E i \in 1..Len(d) : d[i].key = key
    THEN CHOOSE i \in 1..Len(d) : d[i].key = key
    ELSE 0

\* the items left in the order of the dict
insertion_order(items, keyname) == items

\* insert_desc that puts an item before the items of the same key
RECURSIVE insert_desc_before_ties(_, _, _)
insert_desc_before_ties(sorted, e, keyname) ==
    IF sorted = <<>> THEN <<e>>
    ELSE IF Head(sorted)[keyname] > e[keyname]
         THEN <<Head(sorted)>> \o insert_desc_before_ties(Tail(sorted), e, keyname)
         ELSE <<e>> \o sorted

\* sorted(items, key=..., reverse=True): stable, equal keys keep their order
RECURSIVE insert_desc(_, _, _)
insert_desc(sorted, e, keyname) ==
    IF sorted = <<>> THEN <<e>>
    ELSE IF Head(sorted)[keyname] >= e[keyname]
         THEN <<Head(sorted)>> \o insert_desc(Tail(sorted), e, keyname)
         ELSE <<e>> \o sorted

RECURSIVE sorted_desc(_, _)
sorted_desc(items, keyname) ==
    IF items = <<>> THEN <<>>
    ELSE insert_desc(sorted_desc(SubSeq(items, 1, Len(items) - 1), keyname),
                     items[Len(items)], keyname)

(***************************************************************************)
(* Task 1 - calculate_total_revenue                                        *)
(***************************************************************************)
\* the total rounded to cents before it is returned
calculate_total_revenue_rounded(txs) ==
    LET total[i \in 0..Len(txs)] ==
            IF i = 0 THEN 0
            ELSE total[i - 1] + (IF numeric_ok(txs[i]) THEN amount(txs[i]) ELSE 0)
    IN  10 * round2(total[Len(txs)])

RECURSIVE calculate_total_revenue(_)
calculate_total_revenue(txs) ==
    IF txs = <<>> THEN 0
    ELSE LET t == txs[Len(txs)]
             rest == calculate_total_revenue(SubSeq(txs, 1, Len(txs) - 1))
         IN  IF numeric_ok(t) THEN rest + amount(t) ELSE rest

(***************************************************************************)
(* Task 2 - region_wise_sales                                              *)
(***************************************************************************)
\* region_key without the strip()
region_key_unstripped(t) ==
    LET r == get(t, "Region")
    IN  IF truthy(r) THEN r ELSE EmptyStr

\* region = (t.get('Region') or '').strip()
region_key(t) ==
    LET r == get(t, "Region")
    IN  strip(IF truthy(r) THEN r ELSE EmptyStr)

\* region_skip that also skips a non-positive Quantity
region_skip_nonpositive(t) == ~numeric_ok(t) \/ get(t, "Quantity").v <= 0

\* the guard of the loop body: continue
region_skip(t) == ~numeric_ok(t)

\* region_grand_add that leaves the unnamed region out of the grand total
region_grand_add_named(grand_total, region, amt) ==
    IF truthy(region) THEN grand_total + amt ELSE grand_total

\* grand_total += amt
region_grand_add(grand_total, region, amt) == grand_total + amt

\* one iteration of the loop over transactions
region_step(st, t) ==
    IF region_skip(t) THEN st
    ELSE LET region == region_key(t)
             amt == amount(t)
             i == key_index(st.agg, region)
             agg1 == IF i = 0
                     THEN Append(st.agg, [key |-> region, total_sales |-> 0,
                                          transaction_count |-> 0])
                     ELSE st.agg
             j == IF i = 0 THEN Len(agg1) ELSE i
         IN  [agg |-> [agg1 EXCEPT ![j].total_sales = @ + amt,
                                   ![j].transaction_count = @ + 1],
              grand_total |-> region_grand_add(st.grand_total, region, amt)]

RECURSIVE region_loop(_)
region_loop(txs) ==
    IF txs = <<>> THEN [agg |-> <<>>, grand_total |-> 0]
    ELSE region_step(region_loop(SubSeq(txs, 1, Len(txs) - 1)), txs[Len(txs)])

\* the percentage cut off after 2 decimals instead of rounded
region_percentage_truncated(total_sales, grand_total) ==
    IF grand_total > 0 THEN (total_sales * 10000) \div grand_total ELSE 0

\* pct = total_sales / grand_total * 100 if grand_total > 0 else 0.0, rounded
\* to 2 decimals: a number of hundredths of a percent
region_percentage(total_sales, grand_total) ==
    IF grand_total > 0 THEN round_half_even(total_sales * 10000, grand_total) ELSE 0

region_wise_sales(txs) ==
    LET st == region_loop(txs)
        sorted_regions == sorted_desc(st.agg, "total_sales")
    IN  [i \in 1..Len(sorted_regions) |->
            [key |-> sorted_regions[i].key,
             total_sales |-> round2(sorted_regions[i].total_sales),
             transaction_count |-> sorted_regions[i].transaction_count,
             percentage |-> region_percentage(sorted_regions[i].total_sales,
                                              st.grand_total)]]

(***************************************************************************)
(* print_region_summary_table: the rows printed, one per region            *)
(***************************************************************************)
Unknown == <<"(", "U", "n", "k", "n", "o", "w", "n", ")">>

region_row_name(region) == IF truthy(region) THEN region ELSE PyStr(Unknown)

\* max(len("Region"), *(...)) is given a single int when the mapping is
\* empty, and max() of one int raises TypeError
print_region_summary_table(region_stats) ==
    IF region_stats = <<>>
    THEN [raised |-> TRUE, rows |-> <<>>]
    ELSE [raised |-> FALSE,
          rows |-> [i \in 1..Len(region_stats) |->
                      [name |-> region_row_name(region_stats[i].key),
                       total_sales |-> region_stats[i].total_sales,
                       transaction_count |-> region_stats[i].transaction_count,
                       percentage |-> region_stats[i].percentage]]]

(***************************************************************************)
(* Task 3 - top_selling_products                                           *)
(***************************************************************************)
\* insert_asc that puts an item before the items of the same key
RECURSIVE insert_asc_before_ties(_, _, _)
insert_asc_before_ties(sorted, e, keyname) ==
    IF sorted = <<>> THEN <<e>>
    ELSE IF Head(sorted)[keyname] < e[keyname]
         THEN <<Head(sorted)>> \o insert_asc_before_ties(Tail(sorted), e, keyname)
         ELSE <<e>> \o sorted

\* sorted(items, key=...): stable, ascending
RECURSIVE insert_asc(_, _, _)
insert_asc(sorted, e, keyname) ==
    IF sorted = <<>> THEN <<e>>
    ELSE IF Head(sorted)[keyname] <= e[keyname]
         THEN <<Head(sorted)>> \o insert_asc(Tail(sorted), e, keyname)
         ELSE <<e>> \o sorted

RECURSIVE sorted_asc(_, _)
sorted_asc(items, keyname) ==
    IF items = <<>> THEN <<>>
    ELSE insert_asc(sorted_asc(SubSeq(items, 1, Len(items) - 1), keyname),
                    items[Len(items)], keyname)

\* items[:n]: a negative n counts from the end
slice_to(items, n) ==
    IF n >= 0
    THEN SubSeq(items, 1, IF n < Len(items) THEN n ELSE Len(items))
    ELSE SubSeq(items, 1, IF Len(items) + n > 0 THEN Len(items) + n ELSE 0)

\* pname == '' or not isinstance(...): continue
product_skip(t) ==
    get_default(t, "ProductName", EmptyStr) = EmptyStr \/ ~numeric_ok(t)

\* one iteration of the loop over transactions
product_step(by, t) ==
    IF product_skip(t) THEN by
    ELSE LET pname == get_default(t, "ProductName", EmptyStr)
             i == key_index(by, pname)
             by1 == IF i = 0 THEN Append(by, [key |-> pname, q |-> 0, rev |-> 0])
                    ELSE by
             j == IF i = 0 THEN Len(by1) ELSE i
         IN  [by1 EXCEPT ![j].q = @ + get(t, "Quantity").v,
                         ![j].rev = @ + amount(t)]

RECURSIVE product_loop(_, _)
product_loop(by, txs) ==
    IF txs = <<>> THEN by
    ELSE product_step(product_loop(by, SubSeq(txs, 1, Len(txs) - 1)), txs[Len(txs)])

\* the dict a call starts from, were the dict of the last call kept
top_stale_dict(left_over) == left_over

\* by_product = {}: every call starts from a new dict, whatever the last
\* call left
top_fresh_dict(left_over) == <<>>

\* (name, stats['q'], round(stats['rev'], 2))
product_tuple(e) == [name |-> e.key, q |-> e.q, rev |-> round2(e.rev)]

top_selling_products(by, n) ==
    LET sorted_items == sorted_desc(by, "q")
        top == slice_to(sorted_items, n)
    IN  [i \in 1..Len(top) |-> product_tuple(top[i])]

(***************************************************************************)
(* Task 4 - customer_analysis                                              *)
(***************************************************************************)
\* cid == '' or not isinstance(...): continue
customer_skip(t) ==
    get_default(t, "CustomerID", EmptyStr) = EmptyStr \/ ~numeric_ok(t)

customer_step(agg, t) ==
    IF customer_skip(t) THEN agg
    ELSE LET cid == get_default(t, "CustomerID", EmptyStr)
             pname == get_default(t, "ProductName", EmptyStr)
             i == key_index(agg, cid)
             agg1 == IF i = 0
                     THEN Append(agg, [key |-> cid, total_spent |-> 0,
                                       purchase_count |-> 0, products |-> {}])
                     ELSE agg
             j == IF i = 0 THEN Len(agg1) ELSE i
         IN  [agg1 EXCEPT ![j].total_spent = @ + amount(t),
                          ![j].purchase_count = @ + 1,
                          ![j].products = IF truthy(pname) THEN @ \cup {pname} ELSE @]

RECURSIVE customer_loop(_)
customer_loop(txs) ==
    IF txs = <<>> THEN <<>>
    ELSE customer_step(customer_loop(SubSeq(txs, 1, Len(txs) - 1)), txs[Len(txs)])

\* a < b with upper-case letters taken as their lower-case ones
RECURSIVE str_lt_ignoring_case(_, _)
str_lt_ignoring_case(a, b) ==
    LET fold(c) == IF Ord(c) >= 65 /\ Ord(c) <= 90 THEN Ord(c) + 32 ELSE Ord(c)
    IN  IF b = <<>> THEN FALSE
        ELSE IF a = <<>> THEN TRUE
        ELSE IF fold(Head(a)) # fold(Head(b)) THEN fold(Head(a)) < fold(Head(b))
        ELSE str_lt_ignoring_case(Tail(a), Tail(b))

\* the strs in ascending order without regard to case
RECURSIVE sorted_strs_ignoring_case(_)
sorted_strs_ignoring_case(S) ==
    IF S = {} THEN <<>>
    ELSE LET least == CHOOSE x \in S :
                         \A y \in S \ {x} : str_lt_ignoring_case(x.s, y.s)
         IN  <<least>> \o sorted_strs_ignoring_case(S \ {least})

\* sorted(set of str): ascending code-point order
RECURSIVE sorted_strs(_)
sorted_strs(S) ==
    IF S = {} THEN <<>>
    ELSE LET least == CHOOSE x \in S : \A y \in S \ {x} : str_lt(x.s, y.s)
         IN  <<least>> \o sorted_strs(S \ {least})

\* the average taken from the total already rounded to cents
customer_avg_of_rounded(total_spent, purchase_count) ==
    IF purchase_count > 0
    THEN round_half_even(round2(total_spent), purchase_count)
    ELSE 0

\* round(total_spent / purchase_count if purchase_count > 0 else 0.0, 2)
customer_avg(total_spent, purchase_count) ==
    IF purchase_count > 0
    THEN round_half_even(total_spent, 10 * purchase_count)
    ELSE 0

customer_analysis(txs) ==
    LET sorted_customers == sorted_desc(customer_loop(txs), "total_spent")
    IN  [i \in 1..Len(sorted_customers) |->
            [key |-> sorted_customers[i].key,
             total_spent |-> round2(sorted_customers[i].total_spent),
             purchase_count |-> sorted_customers[i].purchase_count,
             avg_order_value |-> customer_avg(sorted_customers[i].total_spent,
                                              sorted_customers[i].purchase_count),
             products_bought |-> sorted_strs(sorted_customers[i].products)]]

(***************************************************************************)
(* print_customer_summary_table: the rows printed, one per customer        *)
(***************************************************************************)
\* sep.join(strs)
RECURSIVE join(_, _)
join(sep, strs) ==
    IF strs = <<>> THEN <<>>
    ELSE IF Len(strs) = 1 THEN strs[1].s
    ELSE strs[1].s \o sep \o join(sep, Tail(strs))

CommaSpace == <<",", " ">>

\* one row for each of list(customer_stats.items())[:top_n]
print_customer_summary_table(customer_stats, top_n) ==
    LET shown == slice_to(customer_stats, top_n)
    IN  [i \in 1..Len(shown) |->
            [cid |-> shown[i].key,
             total_spent |-> shown[i].total_spent,
             purchase_count |-> shown[i].purchase_count,
             avg_order_value |-> shown[i].avg_order_value,
             products |-> PyStr(join(CommaSpace, shown[i].products_bought))]]

(***************************************************************************)
(* Task 5 - daily_sales_trend                                              *)
(***************************************************************************)
\* daily_skip that also passes over a record without a CustomerID
daily_skip_anonymous(t) ==
    \/ get_default(t, "Date", EmptyStr) = EmptyStr
    \/ ~numeric_ok(t)
    \/ ~truthy(get_default(t, "CustomerID", EmptyStr))

\* dt == '' or not isinstance(...): continue
daily_skip(t) ==
    get_default(t, "Date", EmptyStr) = EmptyStr \/ ~numeric_ok(t)

daily_step(agg, t) ==
    IF daily_skip(t) THEN agg
    ELSE LET dt == get_default(t, "Date", EmptyStr)
             cid == get_default(t, "CustomerID", EmptyStr)
             i == key_index(agg, dt)
             agg1 == IF i = 0
                     THEN Append(agg, [key |-> dt, revenue |-> 0,
                                       transaction_count |-> 0, customers |-> {}])
                     ELSE agg
             j == IF i = 0 THEN Len(agg1) ELSE i
         IN  [agg1 EXCEPT ![j].revenue = @ + amount(t),
                          ![j].transaction_count = @ + 1,
                          ![j].customers = IF truthy(cid) THEN @ \cup {cid} ELSE @]

RECURSIVE daily_loop(_)
daily_loop(txs) ==
    IF txs = <<>> THEN <<>>
    ELSE daily_step(daily_loop(SubSeq(txs, 1, Len(txs) - 1)), txs[Len(txs)])

\* sorted() compares the elements of a list of two or more: None against a
\* str raises TypeError
sort_raises(keys) ==
    /\ Cardinality(keys) >= 2
    /\ \E x \in keys : x.k # "str"

daily_sales_trend(txs) ==
    LET agg == daily_loop(txs)
        keys == {agg[i].key : i \in 1..Len(agg)}
    IN  IF sort_raises(keys) THEN [raised |-> TRUE, val |-> <<>>]
        ELSE LET ordered_dates == sorted_strs(keys)
             IN  [raised |-> FALSE,
                  val |-> [i \in 1..Len(ordered_dates) |->
                     LET e == agg[key_index(agg, ordered_dates[i])]
                     IN  [key |-> e.key,
                          revenue |-> round2(e.revenue),
                          transaction_count |-> e.transaction_count,
                          unique_customers |-> Cardinality(e.customers)]]]

(***************************************************************************)
(* Task 6 - find_peak_sales_day                                            *)
(***************************************************************************)
\* a guard that never takes the early return
peak_no_guard(trend) == FALSE

\* if not trend
peak_no_trend(trend) == trend = <<>>

\* the last of the sorted candidates
peak_latest(candidates) ==
    sorted_strs(candidates)[Cardinality(candidates)]

\* best_date = sorted(candidates)[0]
peak_best_date(candidates) == sorted_strs(candidates)[1]

PeakSentinel == [date |-> EmptyStr, revenue |-> 0, transaction_count |-> 0]

\* max_rev, candidates, best_date and the returned tuple; max() of an empty
\* sequence raises ValueError
peak_select(trend) ==
    IF trend = <<>> THEN [raised |-> TRUE, val |-> PeakSentinel]
    ELSE LET max_rev == CHOOSE r \in {trend[i].revenue : i \in 1..Len(trend)} :
                           \A i \in 1..Len(trend) : trend[i].revenue <= r
             candidates == {trend[i].key : i \in {j \in 1..Len(trend) :
                                                    trend[j].revenue = max_rev}}
             best_date == peak_best_date(candidates)
             e == trend[key_index(trend, best_date)]
         IN  [raised |-> FALSE,
              val |-> [date |-> best_date, revenue |-> e.revenue,
                       transaction_count |-> e.transaction_count]]

find_peak_sales_day(txs) ==
    LET daily == daily_sales_trend(txs)
    IN  IF daily.raised THEN [raised |-> TRUE, val |-> PeakSentinel]
        ELSE IF peak_no_trend(daily.val) THEN [raised |-> FALSE, val |-> PeakSentinel]
        ELSE peak_select(daily.val)

(***************************************************************************)
(* Task 7 - low_performing_products                                        *)
(***************************************************************************)
\* a filter that keeps the products at the threshold too
low_at_or_below(q, threshold) == q <= threshold

\* if stats['q'] < threshold
low_below(q, threshold) == q < threshold

RECURSIVE low_filter(_, _)
low_filter(by, threshold) ==
    IF by = <<>> THEN <<>>
    ELSE (IF low_below(Head(by).q, threshold) THEN <<product_tuple(Head(by))>>
          ELSE <<>>) \o low_filter(Tail(by), threshold)

low_performing_products(txs, threshold) ==
    sorted_asc(low_filter(product_loop(<<>>, txs), threshold), "q")

(***************************************************************************)
(* file_handler.py - read_sales_data: the file as the lines of its text    *)
(***************************************************************************)
\* chars.split(sep), sep one character
RECURSIVE split(_, _)
split(chars, sep) ==
    IF \A i \in 1..Len(chars) : chars[i] # sep THEN <<chars>>
    ELSE LET k == CHOOSE i \in 1..Len(chars) :
                     chars[i] = sep /\ \A j \in 1..(i - 1) : chars[j] # sep
         IN  <<SubSeq(chars, 1, k - 1)>> \o split(SubSeq(chars, k + 1, Len(chars)), sep)

HEADERS ==
    {<<"T", "r", "a", "n", "s", "a", "c", "t", "i", "o", "n", "I", "D">>,
     <<"D", "a", "t", "e">>,
     <<"P", "r", "o", "d", "u", "c", "t", "I", "D">>,
     <<"P", "r", "o", "d", "u", "c", "t", "N", "a", "m", "e">>,
     <<"Q", "u", "a", "n", "t", "i", "t", "y">>,
     <<"U", "n", "i", "t", "P", "r", "i", "c", "e">>,
     <<"C", "u", "s", "t", "o", "m", "e", "r", "I", "D">>,
     <<"R", "e", "g", "i", "o", "n">>}

\* the pipe-delimited branch: a line of 8 parts as it is, a line of more than
\* 8 parts rebuilt from its parts and joined with '|' again, other lines left out
RECURSIVE pipe_records(_)
pipe_records(lines) ==
    IF lines = <<>> THEN <<>>
    ELSE LET ln == Head(lines)
             parts == split(ln.s, "|")
             n == Len(parts)
             repaired == <<parts[1], parts[2], parts[3],
                           join(<<"|">>, [i \in 1..(n - 7) |-> PyStr(parts[i + 3])]),
                           parts[n - 3], parts[n - 2], parts[n - 1], parts[n]>>
         IN  (IF n = 8 THEN <<ln>>
              ELSE IF n > 8
                   THEN <<PyStr(join(<<"|">>, [i \in 1..8 |-> PyStr(repaired[i])]))>>
                   ELSE <<>>)
               \o pipe_records(Tail(lines))

\* the vertical branch from index i: a token starting with T or X opens a
\* record of the 8 tokens from it, kept when 8 tokens were left
RECURSIVE vertical_records(_, _)
vertical_records(lines, i) ==
    IF i > Len(lines) THEN <<>>
    ELSE IF lines[i].s[1] \in {"T", "X"}
         THEN LET j == IF i + 8 <= Len(lines) + 1 THEN i + 8 ELSE Len(lines) + 1
              IN  (IF j - i = 8 THEN <<PyStr(join(<<"|">>, SubSeq(lines, i, j - 1)))>>
                   ELSE <<>>)
                    \o vertical_records(lines, j)
         ELSE vertical_records(lines, i + 1)

\* FileNotFoundError without the file; else the record strings
read_sales_data(file) ==
    IF ~file.exists THEN [raised |-> TRUE, val |-> <<>>]
    ELSE LET kept[i \in 0..Len(file.lines)] ==
                 IF i = 0 THEN <<>>
                 ELSE LET ln == strip(file.lines[i])
                      IN  IF ln = EmptyStr \/ ln.s \in HEADERS THEN kept[i - 1]
                          ELSE Append(kept[i - 1], ln)
             lines_wo_headers == kept[Len(file.lines)]
             n == Len(lines_wo_headers)
             pipe_count == Cardinality({i \in 1..n :
                               \E c \in 1..Len(lines_wo_headers[i].s) :
                                   lines_wo_headers[i].s[c] = "|"})
         IN  [raised |-> FALSE,
              val |-> IF pipe_count >= (IF n \div 2 > 1 THEN n \div 2 ELSE 1)
                      THEN pipe_records(lines_wo_headers)
                      ELSE vertical_records(lines_wo_headers, 1)]

(***************************************************************************)
(* file_handler.py - parse_transactions and validate_and_filter            *)
(***************************************************************************)
\* the dict parse_transactions appends: eight keys, no Amount yet
Parsed(tx_id, date, prod_id, prod_name, qty, price, cust_id, region) ==
    [TransactionID |-> tx_id, Date |-> date, ProductID |-> prod_id,
     ProductName |-> prod_name, Quantity |-> qty, UnitPrice |-> price,
     CustomerID |-> cust_id, Region |-> region, Amount |-> PyMissing]

required_fields ==
    <<"TransactionID", "Date", "ProductID", "ProductName",
      "Quantity", "UnitPrice", "CustomerID", "Region">>

\* str.lower() of one character
Lower(c) ==
    CASE c = "A" -> "a" [] c = "B" -> "b" [] c = "C" -> "c" [] c = "K" -> "k"
      [] c = "M" -> "m" [] c = "N" -> "n" [] c = "P" -> "p" [] c = "S" -> "s"
      [] c = "T" -> "t" [] c = "U" -> "u" [] c = "X" -> "x"
      [] OTHER -> c

lower(chars) == [i \in 1..Len(chars) |-> Lower(chars[i])]

\* isinstance(x, str) and x.startswith(prefix), prefix one character
startswith(x, prefix) == x.k = "str" /\ x.s # <<>> /\ x.s[1] = prefix

\* the test on an id without the prefix
id_any_str(t, field, prefix) == t[field].k = "str"

\* isinstance(t[field], str) and t[field].startswith(prefix)
id_ok(t, field, prefix) == startswith(t[field], prefix)

\* the record reaches valid.append(t):
\*   not any(k not in t or t[k] in [None, ''] for k in required_fields)
\*   isinstance(t['Quantity'], int) and t['Quantity'] > 0
\*   isinstance(t['UnitPrice'], (int, float)) and t['UnitPrice'] > 0
\*   and the three id prefixes
is_valid(t) ==
    /\ \A i \in 1..Len(required_fields) :
          LET x == t[required_fields[i]]
          IN  ~(x.k = "missing" \/ x = PyNone \/ x = EmptyStr)
    /\ isinstance_int(t.Quantity) /\ t.Quantity.v > 0
    /\ isinstance_number(t.UnitPrice) /\ to_float(t.UnitPrice) > 0
    /\ id_ok(t, "TransactionID", "T")
    /\ id_ok(t, "ProductID", "P")
    /\ id_ok(t, "CustomerID", "C")

\* t['Amount'] = float(t['Quantity'] * t['UnitPrice']), written on the record
with_amount(t) ==
    [t EXCEPT !.Amount = PyFloat(t.Quantity.v * to_float(t.UnitPrice))]

\* the loop passing over a record with a bad CustomerID without counting it
RECURSIVE validate_loop_uncounted(_)
validate_loop_uncounted(txs) ==
    IF txs = <<>> THEN [valid |-> <<>>, invalid_count |-> 0]
    ELSE LET st == validate_loop_uncounted(SubSeq(txs, 1, Len(txs) - 1))
             t == txs[Len(txs)]
         IN  IF is_valid(t) THEN [st EXCEPT !.valid = Append(@, with_amount(t))]
             ELSE IF ~id_ok(t, "CustomerID", "C") THEN st
             ELSE [st EXCEPT !.invalid_count = @ + 1]

\* the loop over transactions: valid and invalid_count
RECURSIVE validate_loop(_)
validate_loop(txs) ==
    IF txs = <<>> THEN [valid |-> <<>>, invalid_count |-> 0]
    ELSE LET st == validate_loop(SubSeq(txs, 1, Len(txs) - 1))
             t == txs[Len(txs)]
         IN  IF is_valid(t)
             THEN [st EXCEPT !.valid = Append(@, with_amount(t))]
             ELSE [st EXCEPT !.invalid_count = @ + 1]

\* [t for t in filtered if t['Region'].lower() == region.lower()]
RECURSIVE region_filter(_, _)
region_filter(filtered, region) ==
    IF filtered = <<>> THEN <<>>
    ELSE (IF lower(Head(filtered).Region.s) = lower(region.s)
          THEN <<Head(filtered)>> ELSE <<>>) \o region_filter(Tail(filtered), region)

\* [t for t in filtered if lo <= t['Amount'] <= hi], a bound of None left out
RECURSIVE amount_filter(_, _, _)
amount_filter(filtered, min_amount, max_amount) ==
    IF filtered = <<>> THEN <<>>
    ELSE LET a == Head(filtered).Amount.v
             keep == /\ min_amount = PyNone \/ a >= to_float(min_amount)
                     /\ max_amount = PyNone \/ a <= to_float(max_amount)
         IN  (IF keep THEN <<Head(filtered)>> ELSE <<>>)
               \o amount_filter(Tail(filtered), min_amount, max_amount)

\* the tuple (filtered, invalid_count, summary)
validate_and_filter(txs, region, min_amount, max_amount) ==
    LET st == validate_loop(txs)
        after_region == IF truthy(region) THEN region_filter(st.valid, region)
                        ELSE st.valid
        filtered_by_region == Len(st.valid) - Len(after_region)
        after_min == IF min_amount # PyNone
                     THEN amount_filter(after_region, min_amount, PyNone)
                     ELSE after_region
        after_max == IF max_amount # PyNone
                     THEN amount_filter(after_min, PyNone, max_amount)
                     ELSE after_min
        filtered_by_amount == (Len(after_region) - Len(after_min))
                                + (Len(after_min) - Len(after_max))
    IN  [filtered |-> after_max,
         invalid_count |-> st.invalid_count,
         summary |-> [total_input |-> Len(txs),
                      invalid |-> st.invalid_count,
                      filtered_by_region |-> filtered_by_region,
                      filtered_by_amount |-> filtered_by_amount,
                      final_count |-> Len(after_max)]]

\* the list passed in, its valid records now carrying Amount
validated_in_place(txs) ==
    [i \in 1..Len(txs) |-> IF is_valid(txs[i]) THEN with_amount(txs[i]) ELSE txs[i]]

(***************************************************************************)
(* Numbers as text: str(), format(x, '.2f'), int() and float()             *)
(***************************************************************************)
Digits == <<"0", "1", "2", "3", "4", "5", "6", "7", "8", "9">>

IsDigit(c) == \E d \in 1..10 : Digits[d] = c

\* the decimal digits of a natural number
RECURSIVE digits_of(_)
digits_of(n) ==
    IF n < 10 THEN <<Digits[n + 1]>>
    ELSE digits_of(n \div 10) \o <<Digits[(n % 10) + 1]>>

\* str(i) of an int
str_int(i) == IF i < 0 THEN <<"-">> \o digits_of(0 - i) ELSE digits_of(i)

\* f"{x:.2f}" of an amount in mills: rounded to cents, two decimals written
\* (the amounts of the model never lie half-way between two cents)
format_2f(mills) ==
    LET cents == round2(Abs(mills))
    IN  (IF mills < 0 /\ cents > 0 THEN <<"-">> ELSE <<>>)
          \o digits_of(cents \div 100) \o <<".">>
          \o <<Digits[((cents \div 10) % 10) + 1], Digits[(cents % 10) + 1]>>

\* the number a string of digits writes
RECURSIVE digits_value(_)
digits_value(chars) ==
    IF chars = <<>> THEN 0
    ELSE 10 * digits_value(SubSeq(chars, 1, Len(chars) - 1))
           + (Ord(chars[Len(chars)]) - 48)

AllDigits(chars) == chars # <<>> /\ \A i \in 1..Len(chars) : IsDigit(chars[i])

Unsigned(chars) == IF chars # <<>> /\ Head(chars) = "-" THEN Tail(chars) ELSE chars

Sign(chars) == IF chars # <<>> /\ Head(chars) = "-" THEN -1 ELSE 1

\* int(s): ok is FALSE where Python raises ValueError
parse_int(chars) ==
    IF AllDigits(Unsigned(chars))
    THEN [ok |-> TRUE, v |-> Sign(chars) * digits_value(Unsigned(chars))]
    ELSE [ok |-> FALSE, v |-> 0]

\* float(s) in mills, for digits with at most three decimals
parse_float(chars) ==
    LET u == Unsigned(chars)
        dots == {i \in 1..Len(u) : u[i] = "."}
    IN  IF dots = {} THEN [ok |-> parse_int(chars).ok, v |-> 1000 * parse_int(chars).v]
        ELSE LET d == CHOOSE i \in dots : TRUE
                 whole == SubSeq(u, 1, d - 1)
                 frac == SubSeq(u, d + 1, Len(u))
                 padded == frac \o SubSeq(<<"0", "0", "0">>, 1, 3 - Len(frac))
             IN  IF /\ Cardinality(dots) = 1
                    /\ Len(frac) <= 3
                    /\ whole \o frac # <<>>
                    /\ \A i \in 1..Len(whole \o frac) : IsDigit((whole \o frac)[i])
                 THEN [ok |-> TRUE,
                       v |-> Sign(chars) * (1000 * digits_value(whole)
                                              + digits_value(padded))]
                 ELSE [ok |-> FALSE, v |-> 0]

(***************************************************************************)
(* file_handler.py - save_cleaned_data: the file as its header and rows    *)
(***************************************************************************)
header ==
    <<"TransactionID", "Date", "ProductID", "ProductName", "Quantity",
      "UnitPrice", "CustomerID", "Region", "Amount">>

\* the header line, then one line of nine fields per transaction
save_cleaned_data(txs) ==
    [exists |-> TRUE,
     rows |-> [i \in 1..Len(txs) |->
                 LET t == txs[i]
                 IN  <<t.TransactionID, t.Date, t.ProductID, t.ProductName,
                       PyStr(str_int(t.Quantity.v)),
                       PyStr(format_2f(to_float(t.UnitPrice))),
                       t.CustomerID, t.Region,
                       PyStr(format_2f(to_float(t.Amount)))>>]]

(***************************************************************************)
(* data_processor.py - load_cleaned_transactions                           *)
(***************************************************************************)
\* qty = int(qty_str), else int(float(qty_str)), else None
load_qty(qty_str) ==
    IF parse_int(qty_str.s).ok THEN PyInt(parse_int(qty_str.s).v)
    ELSE IF parse_float(qty_str.s).ok
         THEN PyInt(Sign(qty_str.s) * (Abs(parse_float(qty_str.s).v) \div 1000))
         ELSE PyNone

\* float(s), None on ValueError
load_float(price_str) ==
    IF parse_float(price_str.s).ok THEN PyFloat(parse_float(price_str.s).v)
    ELSE PyNone

\* the dict appended for a row of 9 cells
load_row(r) ==
    LET qty == load_qty(r[5])
        unit_price == load_float(r[6])
        stored == IF r[9] = EmptyStr THEN PyNone ELSE load_float(r[9])
        amt == IF stored = PyNone /\ qty # PyNone /\ unit_price # PyNone
               THEN PyFloat(qty.v * unit_price.v)
               ELSE stored
    IN  [TransactionID |-> strip(r[1]), Date |-> strip(r[2]),
         ProductID |-> strip(r[3]), ProductName |-> strip(r[4]),
         Quantity |-> qty, UnitPrice |-> unit_price,
         CustomerID |-> strip(r[7]), Region |-> strip(r[8]), Amount |-> amt]

\* rows shorter than 8 cells are passed over, the others padded to 9
RECURSIVE load_rows(_)
load_rows(rows) ==
    IF rows = <<>> THEN <<>>
    ELSE LET r == rows[Len(rows)]
             rest == load_rows(SubSeq(rows, 1, Len(rows) - 1))
         IN  IF Len(r) < 8 THEN rest
             ELSE Append(rest, load_row(IF Len(r) < 9 THEN Append(r, EmptyStr) ELSE r))

\* FileNotFoundError without the file; the header row is skipped
load_cleaned_transactions(file) ==
    IF ~file.exists THEN [raised |-> TRUE, val |-> <<>>]
    ELSE [raised |-> FALSE, val |-> load_rows(file.rows)]

(***************************************************************************)
(* api_handler.py - the product mapping and the enrichment of the cleaned  *)
(* file; a product of the API is a record of Python values, PyMissing      *)
(* where the key is absent                                                 *)
(***************************************************************************)
\* the dict keyed by the ids that are truthy; a later product of the same
\* id replaces the entry and keeps its place
RECURSIVE create_product_mapping(_)
create_product_mapping(api_products) ==
    IF api_products = <<>> THEN <<>>
    ELSE LET mapping == create_product_mapping(SubSeq(api_products, 1,
                                                      Len(api_products) - 1))
             product == api_products[Len(api_products)]
             pid == get(product, "id")
             info == [key |-> pid, title |-> get(product, "title"),
                      category |-> get(product, "category"),
                      brand |-> get(product, "brand"),
                      rating |-> get(product, "rating"),
                      price |-> get(product, "price")]
         IN  IF ~truthy(pid) THEN mapping
             ELSE IF key_index(mapping, pid) = 0 THEN Append(mapping, info)
             ELSE [mapping EXCEPT ![key_index(mapping, pid)] = info]

\* read_sales_data of api_handler: [] without the file; the lines after the
\* header that split into as many values as the header, as dicts of strings
api_read_sales_data(file) ==
    LET values(r) == split(rstrip(lstrip(join(<<"|">>, r))), "|")
        trans(v) == [TransactionID |-> PyStr(v[1]), Date |-> PyStr(v[2]),
                     ProductID |-> PyStr(v[3]), ProductName |-> PyStr(v[4]),
                     Quantity |-> PyStr(v[5]), UnitPrice |-> PyStr(v[6]),
                     CustomerID |-> PyStr(v[7]), Region |-> PyStr(v[8]),
                     Amount |-> PyStr(v[9])]
        read[n \in 0..Len(file.rows)] ==
            IF n = 0 THEN <<>>
            ELSE IF Len(values(file.rows[n])) = Len(header)
                 THEN Append(read[n - 1], trans(values(file.rows[n])))
                 ELSE read[n - 1]
    IN  IF ~file.exists THEN <<>> ELSE read[Len(file.rows)]

\* re.search(r'P(\d+)', s.upper()): the digits that follow the first P that
\* has a digit after it, as an int; None without such a P
extract_product_id(product_id_str) ==
    LET \* upper() changes the search only where it turns p into P
        upper(c) == IF c = "p" THEN "P" ELSE c
        chars == [i \in 1..Len(product_id_str.s) |-> upper(product_id_str.s[i])]
        starts == {i \in 1..(Len(chars) - 1) : chars[i] = "P" /\ IsDigit(chars[i + 1])}
    IN  IF starts = {} THEN PyNone
        ELSE LET first == CHOOSE i \in starts : \A j \in starts : i <= j
                 last == CHOOSE k \in (first + 1)..Len(chars) :
                            /\ \A j \in (first + 1)..k : IsDigit(chars[j])
                            /\ k = Len(chars) \/ ~IsDigit(chars[k + 1])
             IN  PyInt(digits_value(SubSeq(chars, first + 1, last)))

\* enrich_sales_data with every record marked as matched
enrich_all_matched(txs, product_mapping) ==
    [i \in 1..Len(txs) |->
        [TransactionID |-> txs[i].TransactionID, Date |-> txs[i].Date,
         ProductID |-> txs[i].ProductID, ProductName |-> txs[i].ProductName,
         Quantity |-> txs[i].Quantity, UnitPrice |-> txs[i].UnitPrice,
         CustomerID |-> txs[i].CustomerID, Region |-> txs[i].Region,
         Amount |-> txs[i].Amount,
         API_Category |-> PyNone, API_Brand |-> PyNone, API_Rating |-> PyNone,
         API_Match |-> PyBool(TRUE)]]

\* enrich_sales_data: a copy of each record with the four API fields, from
\* the entry of the mapping where the numeric id is truthy and a key of it
enrich_sales_data(txs, product_mapping) ==
    [i \in 1..Len(txs) |->
        LET trans == txs[i]
            numeric_id == extract_product_id(get_default(trans, "ProductID", EmptyStr))
            k == key_index(product_mapping, numeric_id)
            matched == truthy(numeric_id) /\ k # 0
        IN  [TransactionID |-> trans.TransactionID, Date |-> trans.Date,
             ProductID |-> trans.ProductID, ProductName |-> trans.ProductName,
             Quantity |-> trans.Quantity, UnitPrice |-> trans.UnitPrice,
             CustomerID |-> trans.CustomerID, Region |-> trans.Region,
             Amount |-> trans.Amount,
             API_Category |-> IF matched THEN product_mapping[k].category ELSE PyNone,
             API_Brand |-> IF matched THEN product_mapping[k].brand ELSE PyNone,
             API_Rating |-> IF matched THEN product_mapping[k].rating ELSE PyNone,
             API_Match |-> PyBool(matched)]]

enriched_headers ==
    <<"TransactionID", "Date", "ProductID", "ProductName", "Quantity",
      "UnitPrice", "CustomerID", "Region", "Amount",
      "API_Category", "API_Brand", "API_Rating", "API_Match">>

\* save_enriched_data: nothing is written for an empty list; otherwise the
\* file is replaced by the header and one line per record, str(val) of each
\* value and '' for None
save_enriched_data(enriched_transactions, file) ==
    LET str(val) ==
            CASE val.k = "str" -> val
              [] val.k = "int" -> PyStr(str_int(val.v))
              [] val.k = "bool" -> PyStr(IF val.v = 1 THEN <<"T", "r", "u", "e">>
                                         ELSE <<"F", "a", "l", "s", "e">>)
              [] OTHER -> EmptyStr
    IN  IF enriched_transactions = <<>> THEN file
        ELSE [exists |-> TRUE,
              rows |-> [i \in 1..Len(enriched_transactions) |->
                          [j \in 1..Len(enriched_headers) |->
                              str(enriched_transactions[i][enriched_headers[j]])]]]

(***************************************************************************)
(* sales_report_generation.py - SalesReportGenerator                       *)
(***************************************************************************)
\* the dict built for a row: the cells under the names of the header, then
\* Quantity, UnitPrice and Amount parsed; ok is FALSE on ValueError
report_row(r) ==
    LET cells == [i \in 1..Len(header) |-> IF i <= Len(r) THEN r[i] ELSE EmptyStr]
        qty == parse_int(cells[5].s)
        unit_price == parse_float(cells[6].s)
        amt == parse_float(cells[9].s)
    IN  [ok |-> qty.ok /\ unit_price.ok /\ amt.ok,
         trans |-> [TransactionID |-> cells[1], Date |-> cells[2],
                    ProductID |-> cells[3], ProductName |-> cells[4],
                    Quantity |-> PyInt(qty.v), UnitPrice |-> PyFloat(unit_price.v),
                    CustomerID |-> cells[7], Region |-> cells[8],
                    Amount |-> PyFloat(amt.v)]]

\* _load_transactions: the rows after the header that have 8 cells or more
\* and parse
RECURSIVE report_load_rows(_)
report_load_rows(rows) ==
    IF rows = <<>> THEN <<>>
    ELSE LET r == rows[Len(rows)]
             rest == report_load_rows(SubSeq(rows, 1, Len(rows) - 1))
         IN  IF Len(r) >= 8 /\ report_row(r).ok
             THEN Append(rest, report_row(r).trans)
             ELSE rest

\* sum(t.get('Amount', 0) for t in self.transactions), in mills
RECURSIVE report_sum_amount(_)
report_sum_amount(txs) ==
    IF txs = <<>> THEN 0
    ELSE report_sum_amount(SubSeq(txs, 1, Len(txs) - 1))
           + get_default(txs[Len(txs)], "Amount", PyFloat(0)).v

NotAvailable == <<"N", "/", "A">>

\* _calculate_summary_metrics on a list that is not empty; a quotient is kept
\* as its numerator and denominator
calculate_summary_metrics(txs) ==
    LET total_revenue == report_sum_amount(txs)
        dates == sorted_strs({get_default(txs[i], "Date", EmptyStr) :
                                i \in {j \in 1..Len(txs) :
                                         truthy(get_default(txs[j], "Date", EmptyStr))}})
    IN  [total_revenue |-> total_revenue,
         total_transactions |-> Len(txs),
         avg_order_value |-> [num |-> total_revenue, den |-> Len(txs)],
         date_range |-> IF dates # <<>>
                        THEN PyStr(dates[1].s \o <<" ", "t", "o", " ">> \o dates[Len(dates)].s)
                        ELSE PyStr(NotAvailable)]

\* one iteration of a grouping loop: the defaultdict entry of the record's
\* key gains the Amount, the Quantity, one transaction and the customer
report_group_step(groups, t, field) ==
    LET key == get_default(t, field, PyStr(<<"U", "n", "k", "n", "o", "w", "n">>))
        cust == get_default(t, "CustomerID", EmptyStr)
        i == key_index(groups, key)
        g1 == IF i = 0
              THEN Append(groups, [key |-> key, sales |-> 0, qty |-> 0,
                                   count |-> 0, customers |-> {}])
              ELSE groups
        j == IF i = 0 THEN Len(g1) ELSE i
    IN  [g1 EXCEPT ![j].sales = @ + get_default(t, "Amount", PyFloat(0)).v,
                   ![j].qty = @ + get_default(t, "Quantity", PyInt(0)).v,
                   ![j].count = @ + 1,
                   ![j].customers = IF truthy(cust) THEN @ \cup {cust} ELSE @]

RECURSIVE report_groups(_, _)
report_groups(txs, field) ==
    IF txs = <<>> THEN <<>>
    ELSE report_group_step(report_groups(SubSeq(txs, 1, Len(txs) - 1), field),
                           txs[Len(txs)], field)

\* _calculate_region_performance
calculate_region_performance(txs) ==
    LET region_stats == report_groups(txs, "Region")
        total_sales == SumField(region_stats, "sales")
        sorted_regions == sorted_desc(region_stats, "sales")
    IN  [i \in 1..Len(sorted_regions) |->
            [key |-> sorted_regions[i].key,
             sales |-> sorted_regions[i].sales,
             percentage |-> IF total_sales > 0
                            THEN [num |-> 100 * sorted_regions[i].sales,
                                  den |-> total_sales]
                            ELSE [num |-> 0, den |-> 1],
             count |-> sorted_regions[i].count]]

\* _get_top_products: (rank, name, qty, revenue)
get_top_products(txs, n) ==
    LET top == slice_to(sorted_desc(report_groups(txs, "ProductName"), "qty"), n)
    IN  [i \in 1..Len(top) |->
            [rank |-> i, name |-> top[i].key, qty |-> top[i].qty,
             revenue |-> top[i].sales]]

\* _get_top_customers: (rank, cust_id, spent, count)
get_top_customers(txs, n) ==
    LET top == slice_to(sorted_desc(report_groups(txs, "CustomerID"), "sales"), n)
    IN  [i \in 1..Len(top) |->
            [rank |-> i, cust_id |-> top[i].key, spent |-> top[i].sales,
             count |-> top[i].count]]

\* _get_daily_trend, in the order of sorted(daily_stats.keys())
get_daily_trend(txs) ==
    LET daily_stats == report_groups(txs, "Date")
        sorted_dates == sorted_strs({daily_stats[i].key : i \in 1..Len(daily_stats)})
    IN  [i \in 1..Len(sorted_dates) |->
            LET stats == daily_stats[key_index(daily_stats, sorted_dates[i])]
            IN  [key |-> stats.key, revenue |-> stats.sales, txn |-> stats.count,
                 unique_customers |-> Cardinality(stats.customers)]]

\* _get_best_selling_day: max() returns the first of the items with the
\* greatest revenue
get_best_selling_day(txs) ==
    LET daily == get_daily_trend(txs)
    IN  IF daily = <<>>
        THEN [date |-> PyStr(NotAvailable), revenue |-> 0, txn |-> 0]
        ELSE LET best == CHOOSE i \in 1..Len(daily) :
                            /\ \A j \in 1..Len(daily) : daily[j].revenue <= daily[i].revenue
                            /\ \A j \in 1..(i - 1) : daily[j].revenue < daily[i].revenue
             IN  [date |-> daily[best].key, revenue |-> daily[best].revenue,
                  txn |-> daily[best].txn]

RECURSIVE report_low_filter(_, _)
report_low_filter(groups, threshold) ==
    IF groups = <<>> THEN <<>>
    ELSE (IF Head(groups).qty < threshold
          THEN <<[name |-> Head(groups).key, qty |-> Head(groups).qty,
                  revenue |-> Head(groups).sales]>>
          ELSE <<>>) \o report_low_filter(Tail(groups), threshold)

\* _get_low_performing_products
get_low_performing_products(txs, threshold) ==
    sorted_asc(report_low_filter(report_groups(txs, "ProductName"), threshold), "qty")

\* _calculate_region_avg_transaction
calculate_region_avg_transaction(txs) ==
    LET region_stats == report_groups(txs, "Region")
    IN  [i \in 1..Len(region_stats) |->
            [key |-> region_stats[i].key,
             avg |-> [num |-> region_stats[i].sales, den |-> region_stats[i].count]]]

ReportTopN == 5

ReportThreshold == 10

\* _load_enriched_data: [] without the file, else the dicts csv.DictReader
\* makes of the lines after the header
load_enriched_data(file) ==
    IF ~file.exists THEN <<>>
    ELSE [i \in 1..Len(file.rows) |->
            [h \in {enriched_headers[j] : j \in 1..Len(enriched_headers)} |->
                file.rows[i][CHOOSE j \in 1..Len(enriched_headers) :
                                enriched_headers[j] = h]]]

\* _get_enrichment_summary: the dict returned for no enriched data has no
\* key 'matched'
get_enrichment_summary(enriched_data) ==
    IF enriched_data = <<>>
    THEN [total_enriched |-> 0, success_rate |-> [num |-> 0, den |-> 1],
          failed_products |-> <<>>]
    ELSE LET total == Len(enriched_data)
             matched == Cardinality({i \in 1..total :
                            enriched_data[i].API_Match = PyStr(<<"T", "r", "u", "e">>)})
             Failed(e) == e.API_Match = PyStr(<<"F", "a", "l", "s", "e">>)
             failed == SelectSeq(enriched_data, Failed)
         IN  [total_enriched |-> total,
              matched |-> matched,
              success_rate |-> [num |-> 100 * matched, den |-> total],
              failed_products |-> [i \in 1..Len(failed) |-> failed[i].ProductID]]

\* sections 1 to 8 of the report: the figures of the transactions, then the
\* enrichment summary, of which line 451 reads the key 'matched' (KeyError
\* when the summary is the one of no enriched data)
report_sections(txs, enrichment) ==
    IF "matched" \notin DOMAIN enrichment
    THEN [raised |-> TRUE, val |-> <<>>]
    ELSE [raised |-> FALSE,
          val |-> [records_processed |-> Len(txs),
                   metrics |-> calculate_summary_metrics(txs),
                   region_perf |-> calculate_region_performance(txs),
                   top_prods |-> get_top_products(txs, ReportTopN),
                   top_custs |-> get_top_customers(txs, ReportTopN),
                   daily_trend |-> get_daily_trend(txs),
                   best_day |-> get_best_selling_day(txs),
                   low_prods |-> get_low_performing_products(txs, ReportThreshold),
                   region_avg |-> calculate_region_avg_transaction(txs),
                   enrichment |-> enrichment]]

\* generate_report: FileNotFoundError without the data file, ValueError when
\* no transaction was loaded from it
generate_report(file, enriched) ==
    IF ~file.exists \/ report_load_rows(file.rows) = <<>>
    THEN [raised |-> TRUE, val |-> <<>>]
    ELSE report_sections(report_load_rows(file.rows),
                         get_enrichment_summary(load_enriched_data(enriched)))

(***************************************************************************)
(* Inputs                                                                  *)
(***************************************************************************)
SeqsUpTo(S, n) == UNION {[1..k -> S] : k \in 0..n}

North == <<"N", "o", "r", "t", "h">>
South == <<"S", "o", "u", "t", "h">>
Blank == <<" ", "\t">>

Day1 == <<"2", "0", "2", "4", "-", "0", "1", "-", "0", "2">>
Day2 == <<"2", "0", "2", "4", "-", "0", "1", "-", "0", "5">>

Mouse == <<"M", "o", "u", "s", "e">>
Keyboard == <<"K", "e", "y", "b", "o", "a", "r", "d">>

Cust1 == <<"C", "0", "0", "1">>
Cust2 == <<"C", "0", "0", "2">>

Keys == <<"k", "e", "y", "s">>

\* Region varies over names and every blank form; Quantity and UnitPrice over
\* well-typed values (with amounts that do not fall on a cent) and over the
\* malformed forms
RegionTxs ==
    {Tx(PyStr(Day1), PyStr(Mouse), qp[1], qp[2], PyStr(Cust1), PyStr(North)) :
        qp \in {<<PyInt(2), PyFloat(10000)>>, <<PyInt(1), PyFloat(5000)>>,
                <<PyInt(1), PyFloat(3335)>>}}
    \cup
    {Tx(PyStr(Day1), PyStr(Mouse), qp[1], qp[2], PyStr(Cust1), PyStr(South)) :
        qp \in {<<PyInt(1), PyFloat(20000)>>, <<PyInt(1), PyFloat(3335)>>}}
    \cup
    {Tx(PyStr(Day1), PyStr(Mouse), PyInt(1), PyFloat(3334), PyStr(Cust1), r) :
        r \in {EmptyStr, PyStr(Blank), PyNone, PyMissing}}
    \cup
    {Tx(PyStr(Day1), PyStr(Mouse), qp[1], qp[2], PyStr(Cust1), PyStr(North)) :
        qp \in {<<PyNone, PyFloat(10000)>>, <<PyInt(2), PyMissing>>,
                <<PyFloat(2500), PyFloat(10000)>>, <<PyInt(-1), PyFloat(10000)>>,
                <<PyInt(0), PyInt(7)>>}}

\* ProductName varies over names and the empty, None and absent forms;
\* the quantities add up to, just below and just above the thresholds
ProductTxs ==
    {Tx(PyStr(Day1), PyStr(Mouse), PyInt(q), PyFloat(1235), PyStr(Cust1), PyStr(North)) :
        q \in {4, 5, -1}}
    \cup
    {Tx(PyStr(Day1), PyStr(Keyboard), PyInt(q), PyFloat(20000), PyStr(Cust1), PyStr(North)) :
        q \in {5, 10}}
    \cup
    {Tx(PyStr(Day1), p, PyInt(5), PyFloat(10000), PyStr(Cust1), PyStr(North)) :
        p \in {EmptyStr, PyNone, PyMissing}}
    \cup
    {Tx(PyStr(Day1), PyStr(Mouse), PyNone, PyFloat(1235), PyStr(Cust1), PyStr(North)),
     Tx(PyStr(Day1), PyStr(Keyboard), PyInt(9), PyNone, PyStr(Cust1), PyStr(North))}

\* CustomerID varies; the amounts make totals and averages fall between cents;
\* the product names differ in case
CustomerTxs ==
    {Tx(PyStr(Day1), PyStr(p), PyInt(1), PyFloat(m), PyStr(Cust1), PyStr(North)) :
        p \in {Mouse, Keyboard}, m \in {50000, 14}}
    \cup
    {Tx(PyStr(Day1), PyStr(Mouse), PyInt(qm[1]), PyFloat(qm[2]), PyStr(Cust2), PyStr(North)) :
        qm \in {<<1, 15>>, <<0, 10000>>, <<2, 25000>>}}
    \cup
    {Tx(PyStr(Day1), PyStr(Mouse), PyInt(1), PyFloat(50000), c, PyStr(North)) :
        c \in {EmptyStr, PyMissing}}
    \cup
    {Tx(PyStr(Day1), EmptyStr, PyInt(1), PyFloat(50000), PyStr(Cust1), PyStr(North)),
     Tx(PyStr(Day1), PyStr(Mouse), PyNone, PyFloat(50000), PyStr(Cust1), PyStr(North)),
     Tx(PyStr(Day1), PyStr(Keys), PyInt(1), PyFloat(50000), PyStr(Cust1), PyStr(North))}

Day3 == <<"2", "0", "2", "4", "-", "0", "1", "-", "1", "0">>

\* Date varies; the amounts make days tie on the revenue rounded to cents
DailyTxs ==
    {Tx(PyStr(d), PyStr(Mouse), PyInt(1), PyFloat(m), PyStr(c), PyStr(North)) :
        d \in {Day1, Day2, Day3}, m \in {250000, 250004}, c \in {Cust1}}
    \cup
    {Tx(PyStr(Day2), PyStr(Mouse), PyInt(2), PyFloat(250000), PyStr(Cust2), PyStr(North)),
     Tx(PyStr(Day1), PyStr(Mouse), PyInt(1), PyFloat(100000), EmptyStr, PyStr(North)),
     Tx(EmptyStr, PyStr(Mouse), PyInt(1), PyFloat(250000), PyStr(Cust1), PyStr(North)),
     Tx(PyMissing, PyStr(Mouse), PyInt(3), PyFloat(250000), PyStr(Cust1), PyStr(North)),
     Tx(PyStr(Day3), PyStr(Mouse), PyInt(3), PyNone, PyStr(Cust1), PyStr(North))}

\* amounts of which the sums do not fall on a cent, in two regions, products,
\* customers and days; a record every aggregator skips; an int price
MoneyTxs ==
    {Tx(PyStr(Day1), PyStr(Mouse), PyInt(1), PyFloat(3335), PyStr(Cust1), PyStr(North)),
     Tx(PyStr(Day2), PyStr(Keyboard), PyInt(2), PyFloat(3336), PyStr(Cust2), PyStr(South)),
     Tx(PyStr(Day2), PyStr(Mouse), PyInt(1), PyFloat(3334), PyStr(Cust1), PyStr(South)),
     Tx(PyStr(Day1), PyStr(Keyboard), PyNone, PyFloat(3335), PyStr(Cust2), PyStr(North)),
     Tx(PyStr(Day1), PyStr(Keyboard), PyInt(1), PyInt(3), PyStr(Cust2), PyStr(North))}

\* pieces of a raw sales file: a record written one field per line, the same
\* with a pipe in the product name, a record cut short, lines of 8, 9 and 3
\* pipe-delimited fields, a header token and a blank line
SalesFilePieces ==
    LET T(c) == PyStr(c)
    IN  {<<T(<<"T", "1">>), T(<<"d">>), T(<<"P", "1">>), T(<<"n">>), T(<<"1">>),
           T(<<"2">>), T(<<"C", "1">>), T(<<"r">>)>>,
         <<T(<<"T", "1">>), T(<<"d">>), T(<<"P", "1">>), T(<<"n", "|", "m">>),
           T(<<"1">>), T(<<"2">>), T(<<"C", "1">>), T(<<"r">>)>>,
         <<T(<<"X", "2">>), T(<<"d">>)>>,
         <<T(<<"T", "1", "|", "d", "|", "P", "1", "|", "n", "|", "1", "|", "2", "|",
               "C", "1", "|", "r">>)>>,
         <<T(<<"T", "1", "|", "d", "|", "P", "1", "|", "n", "|", "m", "|", "1", "|",
               "2", "|", "C", "1", "|", "r", " ">>)>>,
         <<T(<<"T", "1", "|", "d", "|", "P", "1">>)>>,
         <<T(<<"D", "a", "t", "e">>)>>,
         <<T(<<" ">>)>>}

Txn1 == <<"T", "0", "0", "1">>
Txn2 == <<"T", "0", "0", "2">>
Prod1 == <<"P", "1", "0", "1">>
Prod2 == <<"P", "1", "0", "2">>
OtherId == <<"X", "0", "0", "1">>

\* two records that pass every check and, one check at a time, records that
\* fail it; the last fails two checks
ValidateTxs ==
    {Parsed(PyStr(Txn1), PyStr(Day1), PyStr(Prod1), PyStr(Mouse), PyInt(2),
            PyFloat(10000), PyStr(Cust1), PyStr(North)),
     Parsed(PyStr(Txn2), PyStr(Day2), PyStr(Prod2), PyStr(Keyboard), PyInt(1),
            PyFloat(3336), PyStr(Cust2), PyStr(South)),
     Parsed(PyStr(Txn1), PyStr(Day1), PyStr(Prod1), PyStr(Mouse), PyInt(1),
            PyFloat(10000), PyStr(Cust1), EmptyStr),
     Parsed(PyStr(Txn1), PyMissing, PyStr(Prod1), PyStr(Mouse), PyInt(1),
            PyFloat(10000), PyStr(Cust1), PyStr(North)),
     Parsed(PyStr(Txn1), PyStr(Day1), PyStr(Prod1), PyNone, PyInt(1),
            PyFloat(10000), PyStr(Cust1), PyStr(North)),
     Parsed(PyStr(Txn1), PyStr(Day1), PyStr(Prod1), PyStr(Mouse), PyInt(0),
            PyFloat(10000), PyStr(Cust1), PyStr(North)),
     Parsed(PyStr(Txn1), PyStr(Day1), PyStr(Prod1), PyStr(Mouse), PyInt(1),
            PyFloat(0), PyStr(Cust1), PyStr(North)),
     Parsed(PyStr(OtherId), PyStr(Day1), PyStr(Prod1), PyStr(Mouse), PyInt(1),
            PyFloat(10000), PyStr(Cust1), PyStr(North)),
     Parsed(PyStr(Txn1), PyStr(Day1), PyStr(OtherId), PyStr(Mouse), PyInt(1),
            PyFloat(10000), PyStr(Cust1), PyStr(North)),
     Parsed(PyStr(Txn1), PyStr(Day1), PyStr(Prod1), PyStr(Mouse), PyInt(-1),
            PyFloat(10000), PyStr(OtherId), PyStr(North))}

\* parsed records of which the amounts are whole cents, one of which the
\* price has three decimals, two that validation rejects and one of which
\* the product id holds the number 0
PipelineTxs ==
    {Parsed(PyStr(Txn1), PyStr(Day1), PyStr(Prod1), PyStr(Mouse), PyInt(2),
            PyFloat(10000), PyStr(Cust1), PyStr(North)),
     Parsed(PyStr(Txn2), PyStr(Day2), PyStr(Prod2), PyStr(Keyboard), PyInt(3),
            PyFloat(3336), PyStr(Cust2), PyStr(South)),
     Parsed(PyStr(Txn2), PyStr(Day1), PyStr(Prod2), PyStr(Keyboard), PyInt(1),
            PyFloat(5250), PyStr(Cust2), PyStr(North)),
     Parsed(PyStr(Txn1), PyStr(Day1), PyStr(Prod1), PyStr(Mouse), PyInt(1),
            PyFloat(10000), PyStr(Cust1), EmptyStr),
     Parsed(PyStr(OtherId), PyStr(Day1), PyStr(Prod1), PyStr(Mouse), PyInt(1),
            PyFloat(10000), PyStr(Cust1), PyStr(North)),
     Parsed(PyStr(Txn2), PyStr(Day2), PyStr(<<"P", "0">>), PyStr(Keyboard),
            PyInt(1), PyFloat(5250), PyStr(Cust2), PyStr(South))}

(***************************************************************************)
(* State machine: the input list is fixed at construction, every action   *)
(* is one call of an aggregator on it.  result is what the call returned, *)
(* previous what the preceding call of top_selling_products returned,     *)
(* by_product the local dict of that function as its last call left it,   *)
(* sales_file the lines of the raw sales file, cleaned_file the cleaned     *)
(* data file of the output directory, enriched_file the enriched file of   *)
(* the Data directory, report_file the report of the output directory and  *)
(* enriched_path the local variable of that name in main (PyMissing while  *)
(* it is unbound).  In main's pipeline result.op is the step main has      *)
(* completed.                                                              *)
(***************************************************************************)
NoResult == [op |-> "none", arg |-> 0, raised |-> FALSE, val |-> <<>>]

Returned(op, arg, val) == [op |-> op, arg |-> arg, raised |-> FALSE, val |-> val]

Raised(op, arg) == [op |-> op, arg |-> arg, raised |-> TRUE, val |-> <<>>]

InitOn(inputs) ==
    /\ transactions \in SeqsUpTo(inputs, MaxLen)
    /\ result = NoResult
    /\ previous = NoResult
    /\ by_product = <<>>
    /\ sales_file = [exists |-> FALSE, lines |-> <<>>]
    /\ cleaned_file = [exists |-> FALSE, rows |-> <<>>]
    /\ enriched_file = [exists |-> FALSE, rows |-> <<>>]
    /\ report_file = [exists |-> FALSE, content |-> <<>>]
    /\ enriched_path = PyMissing

\* a call that returns r and pops the first record off its input
CallConsumingInput(r) ==
    /\ result' = r
    /\ transactions' = IF transactions = <<>> THEN <<>> ELSE Tail(transactions)

\* a call returns r; the input list is not written
Call(r) ==
    /\ result' = r
    /\ UNCHANGED transactions

CallCalculateTotalRevenue ==
    /\ Call(Returned("calculate_total_revenue", 0,
                     PyFloat(calculate_total_revenue(transactions))))
    /\ UNCHANGED <<previous, by_product, sales_file, cleaned_file, enriched_file, report_file, enriched_path>>

CallRegionWiseSales ==
    /\ Call(Returned("region_wise_sales", 0, region_wise_sales(transactions)))
    /\ UNCHANGED <<previous, by_product, sales_file, cleaned_file, enriched_file, report_file, enriched_path>>

CallPrintRegionSummaryTable ==
    /\ LET p == print_region_summary_table(region_wise_sales(transactions))
       IN  Call(IF p.raised THEN Raised("print_region_summary_table", 0)
                ELSE Returned("print_region_summary_table", 0, p.rows))
    /\ UNCHANGED <<previous, by_product, sales_file, cleaned_file, enriched_file, report_file, enriched_path>>

SpecRegion ==
    /\ InitOn(RegionTxs)
    /\ [][\/ CallCalculateTotalRevenue
          \/ CallRegionWiseSales
          \/ CallPrintRegionSummaryTable
       ]_vars

DefaultTopN == 5

DefaultThreshold == 10

CallTopSellingProducts(n) ==
    LET by == product_loop(top_fresh_dict(by_product), transactions)
    IN  /\ Call(Returned("top_selling_products", n, top_selling_products(by, n)))
        /\ by_product' = by
        /\ previous' = IF result.op = "top_selling_products" THEN result ELSE previous
        /\ UNCHANGED <<sales_file, cleaned_file, enriched_file, report_file, enriched_path>>

CallLowPerformingProducts(threshold) ==
    /\ Call(Returned("low_performing_products", threshold,
                     low_performing_products(transactions, threshold)))
    /\ UNCHANGED <<previous, by_product, sales_file, cleaned_file, enriched_file, report_file, enriched_path>>

CallCustomerAnalysis ==
    /\ Call(Returned("customer_analysis", 0, customer_analysis(transactions)))
    /\ UNCHANGED <<previous, by_product, sales_file, cleaned_file, enriched_file, report_file, enriched_path>>

CallDailySalesTrend ==
    /\ LET d == daily_sales_trend(transactions)
       IN  Call(IF d.raised THEN Raised("daily_sales_trend", 0)
                ELSE Returned("daily_sales_trend", 0, d.val))
    /\ UNCHANGED <<previous, by_product, sales_file, cleaned_file, enriched_file, report_file, enriched_path>>

CallFindPeakSalesDay ==
    /\ LET p == find_peak_sales_day(transactions)
       IN  Call(IF p.raised THEN Raised("find_peak_sales_day", 0)
                ELSE Returned("find_peak_sales_day", 0, p.val))
    /\ UNCHANGED <<previous, by_product, sales_file, cleaned_file, enriched_file, report_file, enriched_path>>

SpecProduct ==
    /\ InitOn(ProductTxs)
    /\ [][\/ \E n \in {-1, 0, 2, DefaultTopN} : CallTopSellingProducts(n)
          \/ \E threshold \in {DefaultThreshold, 5} : CallLowPerformingProducts(threshold)
       ]_vars

DisplayTopN == 10

CallPrintCustomerSummaryTable(top_n) ==
    /\ Call(Returned("print_customer_summary_table", top_n,
                     print_customer_summary_table(customer_analysis(transactions),
                                                  top_n)))
    /\ UNCHANGED <<previous, by_product, sales_file, cleaned_file, enriched_file, report_file, enriched_path>>

SpecCustomer ==
    /\ InitOn(CustomerTxs)
    /\ [][\/ CallCustomerAnalysis
          \/ \E top_n \in {1, DisplayTopN} : CallPrintCustomerSummaryTable(top_n)
       ]_vars

SpecDaily ==
    /\ InitOn(DailyTxs)
    /\ [][\/ CallCalculateTotalRevenue
          \/ CallDailySalesTrend
          \/ CallFindPeakSalesDay
       ]_vars

\* two well-formed records and, one field at a time, the malformed forms
AggTxs ==
    {Tx(PyStr(Day1), PyStr(Mouse), PyInt(1), PyFloat(10000), PyStr(Cust1), PyStr(North)),
     Tx(PyStr(Day2), PyStr(Keyboard), PyInt(2), PyFloat(5000), PyStr(Cust2), PyStr(South)),
     Tx(PyNone, PyStr(Mouse), PyInt(1), PyFloat(10000), PyStr(Cust1), PyStr(North)),
     Tx(PyMissing, PyStr(Mouse), PyInt(1), PyFloat(10000), PyStr(Cust1), PyStr(North)),
     Tx(PyStr(Day1), PyNone, PyInt(1), PyFloat(10000), PyStr(Cust1), PyStr(North)),
     Tx(PyStr(Day1), PyStr(Mouse), PyInt(1), PyFloat(10000), PyNone, PyStr(North)),
     Tx(PyStr(Day1), PyStr(Mouse), PyNone, PyFloat(10000), PyStr(Cust1), PyStr(North)),
     Tx(PyStr(Day1), PyStr(Mouse), PyInt(1), PyStr(<<"3">>), PyStr(Cust1), PyStr(North)),
     Tx(PyNone, PyStr(Mouse), PyMissing, PyFloat(10000), PyStr(Cust1), PyStr(North))}

\* the seven calls of main, with main's arguments
SpecAgg ==
    /\ InitOn(AggTxs)
    /\ [][\/ CallCalculateTotalRevenue
          \/ CallRegionWiseSales
          \/ \E n \in {DefaultTopN} : CallTopSellingProducts(n)
          \/ CallCustomerAnalysis
          \/ CallDailySalesTrend
          \/ CallFindPeakSalesDay
          \/ \E threshold \in {DefaultThreshold} : CallLowPerformingProducts(threshold)
       ]_vars

\* the aggregators that group the amounts, with main's arguments
SpecMoney ==
    /\ InitOn(MoneyTxs)
    /\ [][\/ CallRegionWiseSales
          \/ \E n \in {DefaultTopN} : CallTopSellingProducts(n)
          \/ CallCustomerAnalysis
          \/ CallDailySalesTrend
          \/ CallFindPeakSalesDay
          \/ \E threshold \in {DefaultThreshold} : CallLowPerformingProducts(threshold)
       ]_vars

\* main reads the raw sales file
CallReadSalesData ==
    /\ LET r == read_sales_data(sales_file)
       IN  Call(IF r.raised THEN Raised("read_sales_data", 0)
                ELSE Returned("read_sales_data", 0, r.val))
    /\ UNCHANGED <<previous, by_product, sales_file, cleaned_file, enriched_file, report_file, enriched_path>>

\* the raw sales file is absent or holds up to MaxLen pieces
SpecRead ==
    /\ \E pieces \in SeqsUpTo(SalesFilePieces, MaxLen) :
          LET all[i \in 0..Len(pieces)] ==
                  IF i = 0 THEN <<>> ELSE all[i - 1] \o pieces[i]
          IN  /\ sales_file \in {[exists |-> FALSE, lines |-> <<>>],
                                  [exists |-> TRUE, lines |-> all[Len(pieces)]]}
              /\ transactions = <<>>
              /\ result = NoResult
              /\ previous = NoResult
              /\ by_product = <<>>
              /\ cleaned_file = [exists |-> FALSE, rows |-> <<>>]
              /\ enriched_file = [exists |-> FALSE, rows |-> <<>>]
              /\ report_file = [exists |-> FALSE, content |-> <<>>]
              /\ enriched_path = PyMissing
    /\ [][CallReadSalesData]_vars

\* the region filter is typed in any case
RegionFilters == {PyNone, PyStr(lower(North))}

\* validate_and_filter returns its tuple and has written Amount on the valid
\* records of the list it was given
CallValidateAndFilter(region, min_amount, max_amount) ==
    /\ result' = Returned("validate_and_filter",
                          [region |-> region, min_amount |-> min_amount,
                           max_amount |-> max_amount],
                          validate_and_filter(transactions, region,
                                              min_amount, max_amount))
    /\ transactions' = validated_in_place(transactions)
    /\ UNCHANGED <<previous, by_product, sales_file, cleaned_file, enriched_file, report_file, enriched_path>>

SpecValidate ==
    /\ InitOn(ValidateTxs)
    /\ [][\E region \in RegionFilters, min_amount \in {PyNone, PyFloat(5000)},
             max_amount \in {PyNone, PyFloat(10000)} :
              CallValidateAndFilter(region, min_amount, max_amount)
       ]_vars

\* main saves the list validate_and_filter has just returned
CallSaveCleanedData ==
    /\ result.op = "validate_and_filter"
    /\ cleaned_file' = save_cleaned_data(result.val.filtered)
    /\ Call(Returned("save_cleaned_data", 0, <<>>))
    /\ UNCHANGED <<previous, by_product, sales_file, enriched_file, report_file,
                   enriched_path>>

\* main loads the cleaned file for the analysis once it is saved
CallLoadCleanedTransactions ==
    /\ result.op = "save_cleaned_data"
    /\ LET l == load_cleaned_transactions(cleaned_file)
       IN  Call(IF l.raised THEN Raised("load_cleaned_transactions", 0)
                ELSE Returned("load_cleaned_transactions", 0, [txs |-> l.val]))
    /\ UNCHANGED <<previous, by_product, sales_file, cleaned_file, enriched_file,
                   report_file, enriched_path>>

\* the products of the API: one without a brand, one of which the id is 0
Catalog ==
    <<[id |-> PyInt(101), title |-> PyStr(Mouse), category |-> PyStr(<<"t", "e", "c", "h">>),
       brand |-> PyMissing, rating |-> PyInt(4), price |-> PyFloat(9990)],
      [id |-> PyInt(0), title |-> PyStr(Keyboard), category |-> PyStr(<<"t", "e", "c", "h">>),
       brand |-> PyStr(Keys), rating |-> PyInt(5), price |-> PyFloat(5250)]>>

\* steps 6 to 8 of main, api_products being what fetch_all_products returned
\* ([] when the request failed): without products or without transactions
\* read from the cleaned file enriched_path is None and nothing is written,
\* otherwise the enriched records are saved
MainEnrichment(api_products) ==
    /\ result.op = "load_cleaned_transactions"
    /\ ~result.raised
    /\ LET txs == api_read_sales_data(cleaned_file)
           enriched == enrich_sales_data(txs, create_product_mapping(api_products))
           skipped == api_products = <<>> \/ txs = <<>>
       IN  /\ enriched_file' = IF skipped THEN enriched_file
                               ELSE save_enriched_data(enriched, enriched_file)
           /\ enriched_path' = IF skipped THEN PyNone
                               ELSE PyStr(<<"e", "n", "r", "i", "c", "h", "e", "d">>)
           /\ Call(Returned("enrich_sales_data", [api_products |-> api_products],
                            [enriched |-> IF skipped THEN <<>> ELSE enriched]))
    /\ UNCHANGED <<previous, by_product, sales_file, cleaned_file, report_file>>

\* step 9 of main: SalesReportGenerator().generate_report()
CallGenerateReport ==
    /\ result.op = "enrich_sales_data"
    /\ LET r == generate_report(cleaned_file, enriched_file)
       IN  Call(IF r.raised THEN Raised("generate_report", 0)
                ELSE Returned("generate_report", 0, r.val))
    /\ UNCHANGED <<previous, by_product, sales_file, cleaned_file, enriched_file,
                   report_file, enriched_path>>

\* save_report writes the report main has just generated
CallSaveReport ==
    /\ result.op = "generate_report"
    /\ ~result.raised
    /\ report_file' = [exists |-> TRUE, content |-> result.val]
    /\ Call(Returned("save_report", 0, <<>>))
    /\ UNCHANGED <<previous, by_product, sales_file, cleaned_file, enriched_file,
                   enriched_path>>

\* step 10 of main: 'Process Complete!' is printed and main returns
ProcessComplete ==
    /\ result.op = "save_report"
    /\ Call(Returned("Process Complete", 0, <<>>))
    /\ UNCHANGED <<previous, by_product, sales_file, cleaned_file, enriched_file,
                   report_file, enriched_path>>

\* the except clauses of main: an exception of a step ends in sys.exit(1)
SysExit ==
    /\ result.raised
    /\ result.op \in {"load_cleaned_transactions", "generate_report"}
    /\ Call(Returned("sys.exit", 1, <<>>))
    /\ UNCHANGED <<previous, by_product, sales_file, cleaned_file, enriched_file,
                   report_file, enriched_path>>

\* main from the parsed records on: validation, the cleaned file, the
\* analysis, the enrichment and the report; the enriched file is absent or
\* the one an earlier run has left
SpecPipeline ==
    /\ \E earlier \in {<<>>, <<Parsed(PyStr(Txn1), PyStr(Day1), PyStr(Prod1),
                                       PyStr(Mouse), PyInt(1), PyFloat(10000),
                                       PyStr(Cust1), PyStr(North)),
                                Parsed(PyStr(Txn2), PyStr(Day2), PyStr(Prod2),
                                       PyStr(Keyboard), PyInt(1), PyFloat(5250),
                                       PyStr(Cust2), PyStr(South))>>} :
          /\ transactions \in SeqsUpTo(PipelineTxs, MaxLen)
          /\ result = NoResult
          /\ previous = NoResult
          /\ by_product = <<>>
          /\ sales_file = [exists |-> FALSE, lines |-> <<>>]
          /\ cleaned_file = [exists |-> FALSE, rows |-> <<>>]
          /\ enriched_file =
                save_enriched_data(
                    enrich_sales_data(
                        api_read_sales_data(save_cleaned_data(
                            validate_and_filter(earlier, PyNone, PyNone, PyNone).filtered)),
                        create_product_mapping(Catalog)),
                    [exists |-> FALSE, rows |-> <<>>])
          /\ report_file = [exists |-> FALSE, content |-> <<>>]
          /\ enriched_path = PyMissing
    /\ [][\/ /\ result.op \in {"none", "validate_and_filter"}
             /\ \E region \in RegionFilters :
                   CallValidateAndFilter(region, PyNone, PyNone)
          \/ CallSaveCleanedData
          \/ CallLoadCleanedTransactions
          \/ \E api_products \in {<<>>, Catalog} : MainEnrichment(api_products)
          \/ CallGenerateReport
          \/ CallSaveReport
          \/ ProcessComplete
          \/ SysExit
       ]_vars

\* the dicts read_sales_data of api_handler returns for lines of the cleaned
\* file, which differ in their ProductID: a P and digits, a P alone, a second
\* P before the digits
EnrichTxs ==
    {[TransactionID |-> PyStr(Txn1), Date |-> PyStr(Day1), ProductID |-> PyStr(pid),
      ProductName |-> PyStr(Mouse), Quantity |-> PyStr(<<"1">>),
      UnitPrice |-> PyStr(<<"1", "0", ".", "0", "0">>),
      CustomerID |-> PyStr(Cust1), Region |-> PyStr(North),
      Amount |-> PyStr(<<"1", "0", ".", "0", "0">>)] :
        pid \in {Prod1, Prod2, <<"P", "0">>, <<"P">>,
                 <<"P", "P", "1", "0", "1">>, <<"P", "p", "1", "0", "1">>}}

CallCreateProductMapping(api_products) ==
    /\ Call(Returned("create_product_mapping", [api_products |-> api_products],
                     [mapping |-> create_product_mapping(api_products)]))
    /\ UNCHANGED <<previous, by_product, sales_file, cleaned_file, enriched_file,
                   report_file, enriched_path>>

\* enrich_sales_data on the list and the mapping create_product_mapping has
\* just returned
CallEnrichSalesData ==
    /\ result.op = "create_product_mapping"
    /\ Call(Returned("enrich_sales_data", [product_mapping |-> result.val.mapping],
                     [enriched |-> enrich_sales_data(transactions, result.val.mapping)]))
    /\ UNCHANGED <<previous, by_product, sales_file, cleaned_file, enriched_file,
                   report_file, enriched_path>>

\* the products fetched: none, the catalog, the catalog and a product of id
\* 102 that has neither category nor rating
SpecEnrich ==
    /\ InitOn(EnrichTxs)
    /\ [][\/ \E api_products \in
                {<<>>, Catalog,
                 Append(Catalog, [id |-> PyInt(102), title |-> PyStr(Keyboard),
                                  category |-> PyMissing, brand |-> PyStr(Keys),
                                  rating |-> PyMissing, price |-> PyNone])} :
                CallCreateProductMapping(api_products)
          \/ CallEnrichSalesData
       ]_vars

(***************************************************************************)
(* Claims                                                                  *)
(***************************************************************************)
\* the records of the input that satisfy keep, in order
Filter(txs, keep(_)) ==
    LET F[i \in 0..Len(txs)] ==
            IF i = 0 THEN <<>>
            ELSE IF keep(txs[i]) THEN Append(F[i - 1], txs[i]) ELSE F[i - 1]
    IN  F[Len(txs)]

\* sum of Quantity * UnitPrice (mills) over a list of well-typed records
RECURSIVE SumAmounts(_)
SumAmounts(txs) ==
    IF txs = <<>> THEN 0
    ELSE txs[1].Quantity.v
           * (IF txs[1].UnitPrice.k = "float" THEN txs[1].UnitPrice.v
              ELSE 1000 * txs[1].UnitPrice.v)
         + SumAmounts(Tail(txs))

\* Quantity is an int and UnitPrice a number
WellTyped(t) ==
    /\ t.Quantity.k \in {"int", "bool"}
    /\ t.UnitPrice.k \in {"int", "float", "bool"}

\* Region is absent, None, empty or made of white space only
BlankRegion(t) ==
    \/ t.Region.k \in {"none", "missing"}
    \/ /\ t.Region.k = "str"
       /\ \A i \in 1..Len(t.Region.s) : t.Region.s[i] \in {" ", "\t"}

GroupedRecords == Filter(transactions, WellTyped)

\* C1: the total_sales of the regions returned by region_wise_sales add up to
\* calculate_total_revenue of the same list, within 0.005 per region bucket
C1_RegionTotalsMatchRevenue ==
    result.op = "region_wise_sales" =>
        /\ ~result.raised
        /\ Abs(10 * SumField(result.val, "total_sales")
               - calculate_total_revenue(transactions)) <= 5 * Len(result.val)

C1_Witness ==
    /\ result.op = "region_wise_sales"
    /\ Len(result.val) >= 2
    /\ \E i \in 1..Len(transactions) : ~WellTyped(transactions[i])
    /\ 10 * SumField(result.val, "total_sales") # calculate_total_revenue(transactions)

\* C2: the percentages of region_wise_sales add up to 100.00 within 0.005 per
\* region when the total of the grouped records is positive, and are all 0
\* when that total is 0
C2_PercentagesSumTo100 ==
    result.op = "region_wise_sales" =>
        LET grand == SumAmounts(GroupedRecords)
        IN  /\ ~result.raised
            /\ grand > 0 =>
                 2 * Abs(SumField(result.val, "percentage") - 10000) <= Len(result.val)
            /\ grand = 0 =>
                 \A i \in 1..Len(result.val) : result.val[i].percentage = 0

C2_Witness ==
    /\ result.op = "region_wise_sales"
    /\ Len(result.val) >= 2
    /\ Len(GroupedRecords) < Len(transactions)
    /\ SumAmounts(GroupedRecords) > 0
    /\ \E i \in 1..Len(result.val) : result.val[i].key = EmptyStr

PositiveQuantity(t) == WellTyped(t) /\ t.Quantity.v > 0

\* C5: calculate_total_revenue is non-negative and is the sum of
\* Quantity * UnitPrice over the records whose Quantity is a positive integer
\* and whose UnitPrice is numeric
C5_RevenueOverPositiveQuantities ==
    result.op = "calculate_total_revenue" =>
        /\ result.val.v >= 0
        /\ result.val.v = SumAmounts(Filter(transactions, PositiveQuantity))

BlankGrouped(t) == WellTyped(t) /\ BlankRegion(t)

\* C9: the records with a blank Region are aggregated by region_wise_sales
\* into one bucket with key '' that carries their count, their total and
\* their share of the grand total, and print_region_summary_table shows that
\* bucket as '(Unknown)'
C9_BlankRegionBucket ==
    LET blank == Filter(transactions, BlankGrouped)
        grand == SumAmounts(GroupedRecords)
        IsBucket(e, name) ==
            /\ e[name] = EmptyStr
            /\ e.transaction_count = Len(blank)
            /\ e.total_sales = round_half_even(SumAmounts(blank), 10)
            /\ grand > 0 =>
                 e.percentage = round_half_even(SumAmounts(blank) * 10000, grand)
    IN  /\ (result.op = "region_wise_sales" /\ blank # <<>>) =>
            /\ Cardinality({i \in 1..Len(result.val) :
                              \A j \in 1..Len(result.val[i].key.s) :
                                 result.val[i].key.s[j] \in {" ", "\t"}}) = 1
            /\ \E i \in 1..Len(result.val) : IsBucket(result.val[i], "key")
        /\ (result.op = "print_region_summary_table" /\ blank # <<>>) =>
            /\ ~result.raised
            /\ \A i \in 1..Len(result.val) : result.val[i].name.s # <<>>
            /\ \E i \in 1..Len(result.val) :
                  /\ result.val[i].name = PyStr(Unknown)
                  /\ IsBucket([result.val[i] EXCEPT !.name = EmptyStr], "name")

C9_Witness ==
    /\ result.op = "print_region_summary_table"
    /\ Len(result.val) >= 2
    /\ \E i, j \in 1..Len(transactions) :
          /\ WellTyped(transactions[i]) /\ WellTyped(transactions[j])
          /\ transactions[i].Region = PyNone
          /\ transactions[j].Region = PyStr(Blank)

Permuted(txs, p) == [i \in 1..Len(txs) |-> txs[p[i]]]

\* C3: find_peak_sales_day returns the (date, revenue, transaction_count) of
\* an entry of daily_sales_trend with the maximal revenue, the smallest date
\* among the days that tie for it, whatever the order of the transactions
C3_PeakDayEarliestOfMaxima ==
    LET trend == daily_sales_trend(transactions).val
    IN  (result.op = "find_peak_sales_day" /\ trend # <<>>) =>
            /\ ~result.raised
            /\ \E i \in 1..Len(trend) :
                  /\ result.val = [date |-> trend[i].key,
                                   revenue |-> trend[i].revenue,
                                   transaction_count |-> trend[i].transaction_count]
                  /\ \A j \in 1..Len(trend) :
                        /\ trend[j].revenue <= trend[i].revenue
                        /\ trend[j].revenue = trend[i].revenue =>
                              ~str_lt(trend[j].key.s, trend[i].key.s)
            /\ \A p \in Permutations(1..Len(transactions)) :
                  find_peak_sales_day(Permuted(transactions, p)).val = result.val

C3_Witness ==
    LET trend == daily_sales_trend(transactions).val
    IN  /\ result.op = "find_peak_sales_day"
        /\ Len(trend) = 3
        /\ result.val.date = PyStr(Day2)
        /\ trend[1].revenue < trend[2].revenue
        /\ trend[3].revenue = trend[2].revenue
        /\ transactions[1].Date = PyStr(Day3)

\* the product a record is grouped under: any ProductName but '' or absent
ProductGrouped(t) ==
    WellTyped(t) /\ t.ProductName.k # "missing" /\ t.ProductName # EmptyStr

RECURSIVE QuantityOf(_, _)
QuantityOf(txs, pname) ==
    IF txs = <<>> THEN 0
    ELSE (IF ProductGrouped(txs[1]) /\ txs[1].ProductName = pname
          THEN txs[1].Quantity.v ELSE 0) + QuantityOf(Tail(txs), pname)

GroupedProducts ==
    {transactions[i].ProductName :
        i \in {j \in 1..Len(transactions) : ProductGrouped(transactions[j])}}

\* C4: low_performing_products lists a product if and only if the sum of its
\* quantities over its grouped transactions is strictly less than threshold
C4_LowIffBelowThreshold ==
    result.op = "low_performing_products" =>
        LET listed == {result.val[i].name : i \in 1..Len(result.val)}
        IN  /\ listed \subseteq GroupedProducts
            /\ \A p \in GroupedProducts :
                  p \in listed <=> QuantityOf(transactions, p) < result.arg
            /\ \A i \in 1..Len(result.val) :
                  result.val[i].q = QuantityOf(transactions, result.val[i].name)

C4_Witness ==
    /\ result.op = "low_performing_products"
    /\ result.arg = DefaultThreshold
    /\ result.val # <<>>
    /\ \E p \in GroupedProducts :
          /\ QuantityOf(transactions, p) = DefaultThreshold
          /\ \A i \in 1..Len(transactions) :
                transactions[i].Quantity.k = "int"
                /\ transactions[i].Quantity.v < DefaultThreshold

CustomerGrouped(t) ==
    WellTyped(t) /\ t.CustomerID.k # "missing" /\ t.CustomerID # EmptyStr

\* C8: every customer of customer_analysis has purchase_count >= 1,
\* total_spent the sum of the customer's amounts (to the cent) and
\* avg_order_value that sum divided by purchase_count, rounded to 2 decimals
C8_CustomerAverage ==
    result.op = "customer_analysis" =>
        \A i \in 1..Len(result.val) :
            LET e == result.val[i]
                Own(t) == CustomerGrouped(t) /\ t.CustomerID = e.key
                own == Filter(transactions, Own)
            IN  /\ e.purchase_count >= 1
                /\ e.purchase_count = Len(own)
                /\ e.total_spent = round_half_even(SumAmounts(own), 10)
                /\ e.avg_order_value
                     = round_half_even(SumAmounts(own), 10 * e.purchase_count)

C8_Witness ==
    /\ result.op = "customer_analysis"
    /\ \E i, j \in 1..Len(result.val) :
          /\ result.val[i].purchase_count = 2
          /\ result.val[i].total_spent = 10000
          /\ result.val[i].avg_order_value = 5000
          /\ result.val[j].purchase_count = 1
          /\ result.val[j].total_spent = 0
          /\ result.val[j].avg_order_value = 0

\* C10: two calls of top_selling_products on the same list with the same n
\* return the same list of tuples in the same order
C10_TopSellingDeterministic ==
    (/\ result.op = "top_selling_products"
     /\ previous.op = "top_selling_products"
     /\ previous.arg = result.arg) => result.val = previous.val

C10_Witness ==
    /\ result.op = "top_selling_products"
    /\ previous.op = "top_selling_products"
    /\ previous.arg = result.arg
    /\ Len(result.val) = 2
    /\ result.val[1].q = result.val[2].q

\* the fields the aggregator named op reads
FieldsRead(op) ==
    {"Quantity", "UnitPrice"} \cup
    CASE op = "region_wise_sales" -> {"Region"}
      [] op \in {"top_selling_products", "low_performing_products"} -> {"ProductName"}
      [] op = "customer_analysis" -> {"CustomerID", "ProductName"}
      [] op \in {"daily_sales_trend", "find_peak_sales_day"} -> {"Date", "CustomerID"}
      [] OTHER -> {}

\* the type a field is meant to have
TypeOk(f, x) ==
    CASE f = "Quantity" -> x.k = "int"
      [] f = "UnitPrice" -> x.k \in {"int", "float"}
      [] OTHER -> x.k = "str"

\* what the aggregator named op returns on txs
AggregatorOn(op, arg, txs) ==
    CASE op = "calculate_total_revenue" -> PyFloat(calculate_total_revenue(txs))
      [] op = "region_wise_sales" -> region_wise_sales(txs)
      [] op = "top_selling_products" ->
            top_selling_products(product_loop(<<>>, txs), arg)
      [] op = "customer_analysis" -> customer_analysis(txs)
      [] op = "daily_sales_trend" -> daily_sales_trend(txs).val
      [] op = "find_peak_sales_day" -> find_peak_sales_day(txs).val
      [] op = "low_performing_products" -> low_performing_products(txs, arg)

\* C6: no aggregator raises for a record of which a field it reads is absent,
\* None or of the wrong type, and what it returns is what it returns on the
\* list without those records
C6_MalformedRecordsInvisible ==
    result.op # "none" =>
        LET WellFormed(t) == \A f \in FieldsRead(result.op) : TypeOk(f, t[f])
        IN  /\ ~result.raised
            /\ result.val = AggregatorOn(result.op, result.arg,
                                         Filter(transactions, WellFormed))

NoText(x) == x.k = "missing" \/ x = EmptyStr

\* the records the aggregator named op passes over
SkippedBy(op, t) ==
    \/ ~WellTyped(t)
    \/ op \in {"top_selling_products", "low_performing_products"}
          /\ NoText(t.ProductName)
    \/ op = "customer_analysis" /\ NoText(t.CustomerID)
    \/ op \in {"daily_sales_trend", "find_peak_sales_day"} /\ NoText(t.Date)

EmptyResult(op) ==
    CASE op = "calculate_total_revenue" -> PyFloat(0)
      [] op = "find_peak_sales_day" ->
            [date |-> EmptyStr, revenue |-> 0, transaction_count |-> 0]
      [] OTHER -> <<>>

\* C7: on the empty list, and on a list of which it skips every record, each
\* aggregator returns its empty result without raising: 0.0, an empty mapping
\* or list, and ('', 0.0, 0) for find_peak_sales_day
C7_EmptyInputEmptyResult ==
    (/\ result.op # "none"
     /\ \A i \in 1..Len(transactions) : SkippedBy(result.op, transactions[i])) =>
        /\ ~result.raised
        /\ result.val = EmptyResult(result.op)

C7_Witness ==
    /\ result.op = "find_peak_sales_day"
    /\ Len(transactions) >= 2
    /\ \A i \in 1..Len(transactions) : SkippedBy(result.op, transactions[i])
    /\ \E i \in 1..Len(transactions) : transactions[i].Date = PyNone
    /\ \E i \in 1..Len(transactions) : transactions[i].Date = PyStr(Day1)
    /\ result.val.date = EmptyStr

\* the list of the scenario: North 2 x 10.0, North 1 x 5.0, South 1 x 20.0
C11_Transactions ==
    <<Tx(PyStr(Day1), PyStr(Mouse), PyInt(2), PyFloat(10000), PyStr(Cust1), PyStr(North)),
      Tx(PyStr(Day1), PyStr(Mouse), PyInt(1), PyFloat(5000), PyStr(Cust1), PyStr(North)),
      Tx(PyStr(Day1), PyStr(Mouse), PyInt(1), PyFloat(20000), PyStr(Cust1), PyStr(South))>>

\* C11: on the list North 2 x 10.0, North 1 x 5.0, South 1 x 20.0,
\* region_wise_sales returns North = (25.0, 2, 55.56) followed by
\* South = (20.0, 1, 44.44), and calculate_total_revenue returns 45.0
C11_ScenarioNorthSouth ==
    transactions = C11_Transactions =>
        /\ result.op = "region_wise_sales" =>
              /\ ~result.raised
              /\ result.val =
                    <<[key |-> PyStr(North), total_sales |-> 2500,
                       transaction_count |-> 2, percentage |-> 5556],
                      [key |-> PyStr(South), total_sales |-> 2000,
                       transaction_count |-> 1, percentage |-> 4444]>>
        /\ result.op = "calculate_total_revenue" =>
              /\ ~result.raised
              /\ result.val = PyFloat(45000)

C11_Witness ==
    /\ transactions = C11_Transactions
    /\ result.op = "region_wise_sales"
    /\ Len(result.val) = 2
    /\ result.val[1].percentage + result.val[2].percentage = 10000

\* C12: the regions returned by region_wise_sales are in non-increasing order
\* of total_sales: each one's total_sales is greater than or equal to the
\* next one's
C12_RegionsByTotalSalesDescending ==
    result.op = "region_wise_sales" =>
        \A i \in 1..(Len(result.val) - 1) :
            result.val[i].total_sales >= result.val[i + 1].total_sales

\* three regions in the reverse of the order the list meets them in
C12_Witness ==
    /\ result.op = "region_wise_sales"
    /\ Len(result.val) = 3
    /\ \A i \in 1..3 : result.val[i].key = region_key(transactions[4 - i])
    /\ result.val[1].total_sales > result.val[2].total_sales
    /\ result.val[2].total_sales > result.val[3].total_sales

\* the customers customer_analysis groups records under
GroupedCustomers ==
    {transactions[i].CustomerID :
        i \in {j \in 1..Len(transactions) : CustomerGrouped(transactions[j])}}

\* what a customer spent: the sum of the amounts of the customer's records
SpentBy(cid) ==
    LET Own(t) == CustomerGrouped(t) /\ t.CustomerID = cid
    IN  SumAmounts(Filter(transactions, Own))

\* the non-empty product names on a customer's records
NamesBoughtBy(cid) ==
    {transactions[i].ProductName :
        i \in {j \in 1..Len(transactions) :
                 /\ CustomerGrouped(transactions[j])
                 /\ transactions[j].CustomerID = cid
                 /\ transactions[j].ProductName.k = "str"
                 /\ transactions[j].ProductName.s # <<>>}}

\* C13: customer_analysis returns the customers in non-increasing order of
\* total_spent, so the first N rows print_customer_summary_table takes are N
\* customers that spent at least as much as every customer left out; each
\* products_bought holds every distinct non-empty product name of the
\* customer's records exactly once, in ascending case-sensitive order
C13_CustomersBySpendProductsSorted ==
    /\ result.op = "customer_analysis" =>
          /\ \A i \in 1..(Len(result.val) - 1) :
                result.val[i].total_spent >= result.val[i + 1].total_spent
          /\ \A i \in 1..Len(result.val) :
                LET bought == result.val[i].products_bought
                    names == NamesBoughtBy(result.val[i].key)
                IN  /\ {bought[k] : k \in 1..Len(bought)} = names
                    /\ Len(bought) = Cardinality(names)
                    /\ \A k \in 1..(Len(bought) - 1) :
                          str_lt(bought[k].s, bought[k + 1].s)
    /\ (result.op = "print_customer_summary_table" /\ result.arg >= 0) =>
          LET shown == {result.val[i].cid : i \in 1..Len(result.val)}
          IN  /\ shown \subseteq GroupedCustomers
              /\ Cardinality(shown) = Len(result.val)
              /\ Len(result.val) = IF result.arg < Cardinality(GroupedCustomers)
                                   THEN result.arg
                                   ELSE Cardinality(GroupedCustomers)
              /\ \A c \in shown : \A d \in GroupedCustomers \ shown :
                    SpentBy(c) >= SpentBy(d)
              /\ \A i \in 1..(Len(result.val) - 1) :
                    result.val[i].total_spent >= result.val[i + 1].total_spent

\* the table cut to one row shows the customer the list meets last, whose
\* two products come out in the order upper case first
C13_Witness ==
    /\ result.op = "print_customer_summary_table"
    /\ result.arg = 1
    /\ Cardinality(GroupedCustomers) = 2
    /\ Len(result.val) = 1
    /\ result.val[1].cid # transactions[1].CustomerID
    /\ result.val[1].products = PyStr(Mouse \o CommaSpace \o Keys)
    /\ transactions[2].ProductName = PyStr(Keys)

\* the records daily_sales_trend does not skip
DailyGrouped(t) ==
    WellTyped(t) /\ t.Date.k # "missing" /\ t.Date # EmptyStr

\* C14: daily_sales_trend returns one entry for every date that has a
\* non-skipped transaction, with the sum of the date's amounts, the number of
\* its transactions and the number of distinct non-empty CustomerIDs among
\* them (a transaction with an empty CustomerID counts in revenue and
\* transaction_count only), in strictly ascending order of the date strings
C14_DailyTrendPerDate ==
    result.op = "daily_sales_trend" =>
        LET dates == {transactions[i].Date :
                        i \in {j \in 1..Len(transactions) :
                                 DailyGrouped(transactions[j])}}
        IN  /\ ~result.raised
            /\ {result.val[i].key : i \in 1..Len(result.val)} = dates
            /\ \A i \in 1..(Len(result.val) - 1) :
                  str_lt(result.val[i].key.s, result.val[i + 1].key.s)
            /\ \A i \in 1..Len(result.val) :
                  LET e == result.val[i]
                      Own(t) == DailyGrouped(t) /\ t.Date = e.key
                      own == Filter(transactions, Own)
                      customers == {own[k].CustomerID :
                                      k \in {j \in 1..Len(own) :
                                               /\ own[j].CustomerID.k = "str"
                                               /\ own[j].CustomerID.s # <<>>}}
                  IN  /\ e.revenue = round_half_even(SumAmounts(own), 10)
                      /\ e.transaction_count = Len(own)
                      /\ e.unique_customers = Cardinality(customers)

\* two dates returned in the reverse of the order the list meets them in,
\* the earlier with two transactions of which one has an empty CustomerID
C14_Witness ==
    /\ result.op = "daily_sales_trend"
    /\ Len(result.val) = 2
    /\ result.val[2].key = transactions[1].Date
    /\ result.val[1].transaction_count = 2
    /\ result.val[1].unique_customers = 1
    /\ \E i \in 1..Len(transactions) : transactions[i].CustomerID = EmptyStr

\* what a call of the aggregator named op returns when nothing ran before it
RunAlone(op, arg, txs) ==
    IF op \in {"daily_sales_trend", "find_peak_sales_day"}
          /\ daily_sales_trend(txs).raised
    THEN Raised(op, arg)
    ELSE Returned(op, arg, AggregatorOn(op, arg, txs))

\* C15: a call of an aggregator leaves the list of transactions as it was,
\* and returns what the same call returns when it is the only call made on
\* that list, whatever calls were made before it
C15_AggregatorsIndependent ==
    [][/\ transactions' = transactions
       /\ result' = RunAlone(result'.op, result'.arg, transactions)]_vars

\* low_performing_products returns a product after top_selling_products ran
\* at least twice on the same list
C15_Witness ==
    /\ result.op = "low_performing_products"
    /\ result.val # <<>>
    /\ previous.op = "top_selling_products"
    /\ Len(by_product) = 2
    /\ Len(transactions) = MaxLen

\* sum of the amounts (mills) of the grouped records of a product
RevenueOf(txs, pname) ==
    LET Own(t) == ProductGrouped(t) /\ t.ProductName = pname
    IN  SumAmounts(Filter(txs, Own))

\* position of the first grouped record of a product
FirstGrouped(txs, pname) ==
    CHOOSE i \in 1..Len(txs) :
        /\ ProductGrouped(txs[i]) /\ txs[i].ProductName = pname
        /\ \A j \in 1..(i - 1) :
              ~(ProductGrouped(txs[j]) /\ txs[j].ProductName = pname)

Filled(x) == x.k \notin {"missing", "none"} /\ x # EmptyStr

\* the checks of a valid record, Amount apart
PassesChecks(t) ==
    /\ \A i \in 1..Len(required_fields) : Filled(t[required_fields[i]])
    /\ t.Quantity.k = "int" /\ t.Quantity.v > 0
    /\ \/ t.UnitPrice.k = "int" /\ t.UnitPrice.v > 0
       \/ t.UnitPrice.k = "float" /\ t.UnitPrice.v > 0
    /\ t.TransactionID.k = "str" /\ Head(t.TransactionID.s) = "T"
    /\ t.ProductID.k = "str" /\ Head(t.ProductID.s) = "P"
    /\ t.CustomerID.k = "str" /\ Head(t.CustomerID.s) = "C"

\* C17: every record validate_and_filter returns has the eight required
\* fields present and non-empty, an integer Quantity > 0, a numeric
\* UnitPrice > 0, ids that start with T, P and C, and Amount equal to
\* Quantity * UnitPrice; and invalid_count is the number of records of the
\* input that fail one of these checks or more, none of which is returned
C17_ValidRecordsOnly ==
    result.op = "validate_and_filter" =>
        LET filtered == result.val.filtered
            failing == {i \in 1..Len(transactions) : ~PassesChecks(transactions[i])}
        IN  /\ \A i \in 1..Len(filtered) :
                  /\ PassesChecks(filtered[i])
                  /\ filtered[i].Amount
                        = PyFloat(filtered[i].Quantity.v * filtered[i].UnitPrice.v)
            /\ result.val.invalid_count = Cardinality(failing)
            /\ \A i \in failing : \A j \in 1..Len(filtered) :
                  [filtered[j] EXCEPT !.Amount = PyMissing] # transactions[i]

\* of three records one is returned; one of the others fails on its
\* TransactionID alone, the other on Quantity and CustomerID
C17_Witness ==
    /\ result.op = "validate_and_filter"
    /\ result.arg.region = PyNone
    /\ Len(transactions) = 3
    /\ Len(result.val.filtered) = 1
    /\ result.val.invalid_count = 2
    /\ \E i, j \in 1..3 :
          /\ transactions[i].TransactionID = PyStr(OtherId)
          /\ transactions[j].CustomerID = PyStr(OtherId)
          /\ transactions[j].Quantity = PyInt(-1)

\* C18: validate_and_filter called with no filters returns a record whose
\* Region is the empty string when its other fields are valid
C18_EmptyRegionKept ==
    (/\ result.op = "validate_and_filter"
     /\ result.arg = [region |-> PyNone, min_amount |-> PyNone,
                      max_amount |-> PyNone]) =>
        \A i \in 1..Len(transactions) :
            (/\ transactions[i].Region = EmptyStr
             /\ PassesChecks([transactions[i] EXCEPT !.Region = PyStr(North)])) =>
                \E j \in 1..Len(result.val.filtered) :
                    [result.val.filtered[j] EXCEPT !.Amount = PyMissing]
                      = [transactions[i] EXCEPT !.Amount = PyMissing]

\* the entry of a mapping under a key, as a one-element or empty set
EntriesOf(mapping, keyname, key) ==
    {mapping[i] : i \in {j \in 1..Len(mapping) : mapping[j][keyname] = key}}

\* C16: on the same cleaned data file, the aggregators of data_processor
\* (Quantity * UnitPrice of the reloaded records) and those of
\* SalesReportGenerator (the stored Amount column) give the same total
\* revenue and the same totals per region, product, customer and day
C16_SameTotalsFromCleanedFile ==
    (result.op = "generate_report" /\ ~result.raised) =>
        LET dp == load_cleaned_transactions(cleaned_file).val
            Cents(mills) == IF mills % 10 = 0 THEN mills \div 10 ELSE -1
        IN  /\ result.val.metrics.total_revenue = calculate_total_revenue(dp)
            /\ \A i \in 1..Len(result.val.region_perf) :
                  LET e == result.val.region_perf[i]
                  IN  \E d \in EntriesOf(region_wise_sales(dp), "key", e.key) :
                         d.total_sales = Cents(e.sales)
            /\ \A i \in 1..Len(result.val.top_prods) :
                  LET e == result.val.top_prods[i]
                  IN  \E d \in EntriesOf(top_selling_products(product_loop(<<>>, dp),
                                                              DefaultTopN),
                                         "name", e.name) :
                         d.rev = Cents(e.revenue)
            /\ \A i \in 1..Len(result.val.top_custs) :
                  LET e == result.val.top_custs[i]
                  IN  \E d \in EntriesOf(customer_analysis(dp), "key", e.cust_id) :
                         d.total_spent = Cents(e.spent)
            /\ \A i \in 1..Len(result.val.daily_trend) :
                  LET e == result.val.daily_trend[i]
                  IN  \E d \in EntriesOf(daily_sales_trend(dp).val, "key", e.key) :
                         d.revenue = Cents(e.revenue)

\* the Date values of the records of a list
DatesOf(txs) == {txs[i].Date : i \in 1..Len(txs)}

\* merged holds the entries of the trends a and b, each as it is, in strictly
\* ascending order of the dates
DateOrderedUnion(merged, a, b) ==
    /\ Len(merged) = Len(a) + Len(b)
    /\ {merged[i] : i \in 1..Len(merged)}
         = {a[i] : i \in 1..Len(a)} \cup {b[i] : i \in 1..Len(b)}
    /\ \A i \in 1..(Len(merged) - 1) : str_lt(merged[i].key.s, merged[i + 1].key.s)

MoneyGroup(field, key) ==
    LET Own(t) == WellTyped(t) /\ t[field] = key
    IN  Filter(transactions, Own)

\* the amounts of a list of records, each rounded to cents, added up
RECURSIVE SumOfRounded(_)
SumOfRounded(txs) ==
    IF txs = <<>> THEN 0
    ELSE round_half_even(SumAmounts(<<txs[1]>>), 10) + SumOfRounded(Tail(txs))

\* C22: the total_sales of a region, the revenue of a product, the
\* total_spent of a customer and the revenue of a day are the sum of the
\* group's unrounded amounts rounded once to 2 decimals, and regions and
\* customers are ranked by the unrounded sums
C22_RoundedOnceWhenBuilt ==
    LET Once(field, key) == round_half_even(SumAmounts(MoneyGroup(field, key)), 10)
        Raw(field, key) == SumAmounts(MoneyGroup(field, key))
        val == result.val
    IN  /\ result.op = "region_wise_sales" =>
              /\ \A i \in 1..Len(val) : val[i].total_sales = Once("Region", val[i].key)
              /\ \A i \in 1..(Len(val) - 1) :
                    Raw("Region", val[i].key) >= Raw("Region", val[i + 1].key)
        /\ result.op \in {"top_selling_products", "low_performing_products"} =>
              \A i \in 1..Len(val) : val[i].rev = Once("ProductName", val[i].name)
        /\ result.op = "customer_analysis" =>
              /\ \A i \in 1..Len(val) :
                    val[i].total_spent = Once("CustomerID", val[i].key)
              /\ \A i \in 1..(Len(val) - 1) :
                    Raw("CustomerID", val[i].key) >= Raw("CustomerID", val[i + 1].key)
        /\ result.op = "daily_sales_trend" =>
              /\ ~result.raised
              /\ \A i \in 1..Len(val) : val[i].revenue = Once("Date", val[i].key)

\* two regions that tie on the rounded total, the one met last ranked first
\* by its larger unrounded sum, the other's total a cent below the sum of its
\* records' rounded amounts
C22_Witness ==
    /\ result.op = "region_wise_sales"
    /\ Len(result.val) = 2
    /\ result.val[1].total_sales = result.val[2].total_sales
    /\ result.val[1].key = transactions[Len(transactions)].Region
    /\ result.val[2].key = transactions[1].Region
    /\ SumAmounts(MoneyGroup("Region", result.val[1].key))
         > SumAmounts(MoneyGroup("Region", result.val[2].key))
    /\ SumOfRounded(MoneyGroup("Region", result.val[2].key))
         = result.val[2].total_sales + 1

\* C25: whatever the input and the filters, the summary of
\* validate_and_filter accounts for every record: total_input is invalid +
\* filtered_by_region + filtered_by_amount + final_count, final_count is the
\* length of the returned list and invalid the returned invalid_count
C25_SummaryConservesRecords ==
    result.op = "validate_and_filter" =>
        LET summary == result.val.summary
        IN  /\ summary.total_input = Len(transactions)
            /\ summary.total_input = summary.invalid + summary.filtered_by_region
                                       + summary.filtered_by_amount + summary.final_count
            /\ summary.final_count = Len(result.val.filtered)
            /\ summary.invalid = result.val.invalid_count

\* three records of which one is invalid, one is removed by the region filter
\* and one by the max_amount filter
C25_Witness ==
    /\ result.op = "validate_and_filter"
    /\ result.arg.region # PyNone
    /\ result.arg.max_amount # PyNone
    /\ result.val.summary.invalid = 1
    /\ result.val.summary.filtered_by_region = 1
    /\ result.val.summary.filtered_by_amount = 1
    /\ result.val.summary.final_count = 0

\* C28: top_selling_products(transactions, n) returns min(n, number of
\* distinct non-skipped products) entries, none when n is 0 or negative, and
\* no product twice
C28_TopNCount ==
    result.op = "top_selling_products" =>
        LET n == result.arg
            distinct == Cardinality(GroupedProducts)
        IN  /\ Len(result.val) = IF n <= 0 THEN 0
                                  ELSE IF n < distinct THEN n ELSE distinct
            /\ \A i, j \in 1..Len(result.val) :
                  result.val[i].name = result.val[j].name => i = j

\* C29: every record string read_sales_data returns splits on '|' into
\* exactly 8 fields
C29_RecordsOfEightFields ==
    (result.op = "read_sales_data" /\ ~result.raised) =>
        \A i \in 1..Len(result.val) : Len(split(result.val[i].s, "|")) = 8

\* C23: when the cleaned data file holds no valid transaction,
\* generate_report returns a report rather than raising (so that main goes
\* on to 'Process Complete' and not to sys.exit(1))
C23_EmptyInputReportReturns ==
    (/\ result.op = "generate_report"
     /\ cleaned_file.exists
     /\ report_load_rows(cleaned_file.rows) = <<>>) =>
        ~result.raised

\* C26: when main has skipped the enrichment because no products were
\* fetched, enriched_path is None and the report of the transactions of the
\* cleaned file is generated without an exception, so that saving it and
\* 'Process Complete' follow; the cleaned file is written before the steps
\* that read it
C26_SkippedEnrichmentDoesNotAbort ==
    /\ (result.op = "enrich_sales_data" /\ result.arg.api_products = <<>>) =>
          enriched_path = PyNone
    /\ (/\ result.op = "generate_report"
        /\ enriched_path = PyNone
        /\ report_load_rows(cleaned_file.rows) # <<>>) =>
          ~result.raised
    /\ result.op \in {"load_cleaned_transactions", "enrich_sales_data",
                      "generate_report", "save_report", "Process Complete"} =>
          cleaned_file.exists

\* C27: the enrichment summary of a report generated in a run that skipped
\* the enrichment counts no enriched record
C27_SummaryOfThisRunOnly ==
    (/\ result.op = "generate_report"
     /\ ~result.raised
     /\ enriched_path = PyNone) =>
        result.val.enrichment.total_enriched = 0

\* the record with the Amount validate_and_filter stores on it
StoredAmount(t) ==
    [f \in DOMAIN t \cup {"Amount"} |->
        IF f = "Amount" THEN PyFloat(amount(t)) ELSE t[f]]

\* C24: on the same transactions, each with Amount = Quantity * UnitPrice,
\* _get_best_selling_day selects the date find_peak_sales_day has returned
C24_SamePeakDay ==
    (/\ result.op = "find_peak_sales_day"
     /\ ~result.raised
     /\ transactions # <<>>
     /\ \A i \in 1..Len(transactions) : numeric_ok(transactions[i])) =>
        get_best_selling_day([i \in 1..Len(transactions) |->
                                 StoredAmount(transactions[i])]).date
          = result.val.date

\* the entries of a product mapping under a numeric id
InfoOf(product_mapping, numeric_id) ==
    {product_mapping[k] : k \in {j \in 1..Len(product_mapping) :
                                    product_mapping[j].key = numeric_id}}

\* e is t with the four API fields of its numeric id in the mapping
EnrichedFrom(e, t, product_mapping) ==
    LET info == InfoOf(product_mapping, extract_product_id(t.ProductID))
    IN  /\ \A f \in DOMAIN t : e[f] = t[f]
        /\ IF info # {}
           THEN /\ e.API_Match = PyBool(TRUE)
                /\ \E entry \in info :
                      /\ e.API_Category = entry.category
                      /\ e.API_Brand = entry.brand
                      /\ e.API_Rating = entry.rating
           ELSE /\ e.API_Match = PyBool(FALSE)
                /\ e.API_Category = PyNone
                /\ e.API_Brand = PyNone
                /\ e.API_Rating = PyNone

\* C30: enrich_sales_data leaves the transactions and the product mapping as
\* they were and returns, in the order of the transactions, one record per
\* transaction: the transaction's fields, API_Match True and the category,
\* brand and rating of the mapping entry when the numeric id of ProductID is a
\* key of the mapping, else API_Match False and the three API fields None
C30_EnrichedCopies ==
    [][result'.op = "enrich_sales_data" =>
          /\ transactions' = transactions
          /\ result'.arg.product_mapping = result.val.mapping
          /\ Len(result'.val.enriched) = Len(transactions)
          /\ \A i \in 1..Len(transactions) :
                EnrichedFrom(result'.val.enriched[i], transactions[i],
                             result.val.mapping)]_vars

\* three records enriched with the catalog: P101 matched with a rating and no
\* brand, PP101 matched, P0 not matched though the catalog has a product 0
C30_Witness ==
    /\ result.op = "enrich_sales_data"
    /\ Len(result.arg.product_mapping) = 1
    /\ Len(result.val.enriched) = 3
    /\ result.val.enriched[1].ProductID = PyStr(Prod1)
    /\ result.val.enriched[1].API_Match = PyBool(TRUE)
    /\ result.val.enriched[1].API_Rating = PyInt(4)
    /\ result.val.enriched[1].API_Brand = PyNone
    /\ result.val.enriched[2].ProductID = PyStr(<<"P", "P", "1", "0", "1">>)
    /\ result.val.enriched[2].API_Match = PyBool(TRUE)
    /\ result.val.enriched[3].ProductID = PyStr(<<"P", "0">>)
    /\ result.val.enriched[3].API_Match = PyBool(FALSE)
====
